---- MODULE Spec2Model ----
(***************************************************************************)
(* Model of the content-analysis core of ProductInsight:                   *)
(*   app/infrastructure/ai_services/llm_service.py                         *)
(*     LLMCache, retry_on_failure, LLMService                              *)
(*   app/infrastructure/ai_services/advanced_content_analyzer.py           *)
(*     AdvancedContentAnalyzer                                             *)
(*                                                                         *)
(* Specifications:                                                         *)
(*   SpecCache  one LLMCache(max_size, ttl_seconds) driven one call at a   *)
(*              time by get / set while the clock advances                 *)
(*   SpecConc   threads calling get / set on one shared LLMCache, one      *)
(*              dict operation at a time                                   *)
(*   Spec       one LLMService on the process-wide llm_cache, its public   *)
(*              methods called one at a time against a remote service      *)
(*              that answers as it pleases; also a function decorated      *)
(*              with retry_on_failure(N, d)                                *)
(***************************************************************************)
EXTENDS Integers, Sequences, FiniteSets, TLC

VARIABLES
    cache,        \* LLMCache.cache: ordered dict key -> response
    timestamps,   \* LLMCache.timestamps: ordered dict key -> time.time() at set
    max_size,     \* LLMCache.max_size
    ttl,          \* LLMCache.ttl
    now,          \* the value time.time() returns
    setLog,       \* history: the set calls made so far, oldest first
    lastOp,       \* history: the call made last and what it returned
    thr,          \* per thread: the LLMCache call it is in and its locals
    w,            \* the frame of retry_on_failure's wrapper: loop state, caller
    cur,          \* history: what the wrapper call in progress has done so far
    fetched,      \* history: prompt -> time a response was last fetched for it
    result,       \* what the last call of a public method returned or raised
    ncalls,       \* calls of public methods started so far
    analyses,     \* the table of analyses behind the analysis repository
    memory_store, \* RateLimiter._memory_store: key -> list of timestamps
    calls,        \* history: the is_allowed calls made so far, oldest first
    limits        \* the limit and the window the rate-limited endpoint has

cacheVars == <<cache, timestamps, max_size, ttl>>
histVars == <<setLog, lastOp>>
concVars == <<thr>>
svcVars == <<w, cur, fetched, result, ncalls>>
domainVars == <<analyses>>
limiterVars == <<memory_store, calls, limits>>
vars == <<cache, timestamps, max_size, ttl, now, setLog, lastOp, thr,
          w, cur, fetched, result, ncalls, analyses, memory_store, calls, limits>>

\* the variables a specification leaves alone
outsideCache == <<concVars, svcVars, domainVars, limiterVars>>
outsideConc == <<histVars, svcVars, domainVars, limiterVars>>
outsideSvc == <<histVars, concVars, domainVars, limiterVars>>
outsideDomain == <<cacheVars, histVars, concVars, w, cur, fetched, ncalls, limiterVars>>
outsideLimiter == <<cacheVars, histVars, concVars, svcVars, domainVars>>

(***************************************************************************)
(* Bounds of the model                                                     *)
(***************************************************************************)
MaxCap == 2        \* largest max_size a cache under test is constructed with
MaxTtl == 2        \* largest ttl_seconds a cache under test is constructed with
MaxClock == 3      \* the clock of the cache test stops advancing here
MaxSets == 3       \* set calls issued in one run of the cache test
NumThreads == 2    \* threads sharing the cache
MaxCalls == 2      \* calls of public methods in one run of the service
MaxSpans == 1      \* the service clock stops advancing after this many ttl
MaxRetries == 4    \* largest max_retries a function is decorated with
MaxDelay == 2      \* largest delay a function is decorated with

(***************************************************************************)
(* Python values                                                           *)
(***************************************************************************)
None == [t |-> "none"]

\* bool(v) of a dict or None
Truthy(v) == v # None /\ DOMAIN v # {}

\* isinstance(v, dict) and field in v
HasField(v, field) == v # None /\ field \in DOMAIN v

Last(s) == s[Len(s)]

(***************************************************************************)
(* Python dict: insertion-ordered, a sequence of <<key, value>> pairs.     *)
(* Assigning to a present key keeps its position, a new key goes last.     *)
(***************************************************************************)
EmptyDict == << >>

DictKeys(d) == {d[i][1] : i \in DOMAIN d}

DictHas(d, k) == \E i \in DOMAIN d : d[i][1] = k

DictGet(d, k) == d[CHOOSE i \in DOMAIN d : d[i][1] = k][2]

DictPut(d, k, v) ==
    IF DictHas(d, k)
    THEN [i \in DOMAIN d |-> IF d[i][1] = k THEN <<k, v>> ELSE d[i]]
    ELSE Append(d, <<k, v>>)

DictDel(d, k) == SelectSeq(d, LAMBDA e : e[1] # k)

(***************************************************************************)
(* Prompts.  A prompt is a text of which the model keeps what the code     *)
(* looks at: its first max_prompt_length characters (head) and what        *)
(* follows them (tail).  A short head stands for a text below the ceiling  *)
(* and then has no tail.                                                   *)
(***************************************************************************)
max_prompt_length == 8000

NoticeLen == 46     \* len("...\n\nProvide analysis based on available data.")

ShortLen == 31      \* length of the short texts of the model
MoreLen == 100      \* length of the tail "more" of an over-long text

\* text: what the first characters say; full: they are max_prompt_length many
MkPrompt(text, full, tail) == [text |-> text, full |-> full, tail |-> tail]

HeadLen(p) == IF p.full THEN max_prompt_length ELSE ShortLen

TailLen(t) == CASE t = "" -> 0
                [] t = "notice" -> NoticeLen
                [] t = "more" -> MoreLen

PromptLen(p) == HeadLen(p) + TailLen(p.tail)

\* prompt[:n] for n = max_prompt_length
PromptPrefix(p) == IF p.full THEN [p EXCEPT !.tail = ""] ELSE p

\* prompt + "...\n\nProvide analysis based on available data."
PromptPlusNotice(p) == [p EXCEPT !.tail = "notice"]

Short(name) == MkPrompt([direct |-> name], FALSE, "")

(***************************************************************************)
(* LLMCache                                                                *)
(***************************************************************************)
\* hashlib.md5(f"{model}:{prompt}"): modelled as injective on the content
_generate_key(prompt, model) == <<model, prompt>>

\* a slip: the key of the greatest timestamp, the entry set last
NewestKey(ts) ==
    ts[CHOOSE i \in DOMAIN ts :
          \A j \in DOMAIN ts : ts[j][2] < ts[i][2] \/ (ts[j][2] = ts[i][2] /\ j <= i)][1]

\* min(self.timestamps.keys(), key=lambda k: self.timestamps[k]):
\* the first key, in dict order, among those with the least timestamp
OldestKey(ts) ==
    ts[CHOOSE i \in DOMAIN ts :
          \A j \in DOMAIN ts : ts[j][2] > ts[i][2] \/ (ts[j][2] = ts[i][2] /\ j >= i)][1]

\* a slip: an entry whose age equals the ttl still counts as valid
LLMCache_get_inclusive(c, ts, prompt, model, t, life) ==
    LET key == _generate_key(prompt, model) IN
    IF DictHas(c, key)
    THEN IF t - DictGet(ts, key) <= life
         THEN [ret |-> DictGet(c, key), cache |-> c, timestamps |-> ts]
         ELSE [ret |-> None, cache |-> DictDel(c, key), timestamps |-> DictDel(ts, key)]
    ELSE [ret |-> None, cache |-> c, timestamps |-> ts]

\* LLMCache.get run to completion: the returned value and the maps it leaves
LLMCache_get(c, ts, prompt, model, t, life) ==
    LET key == _generate_key(prompt, model) IN
    IF DictHas(c, key)
    THEN IF t - DictGet(ts, key) < life
         THEN [ret |-> DictGet(c, key), cache |-> c, timestamps |-> ts]
         ELSE [ret |-> None, cache |-> DictDel(c, key), timestamps |-> DictDel(ts, key)]
    ELSE [ret |-> None, cache |-> c, timestamps |-> ts]

\* a slip: the eviction forgets the timestamp of the evicted key
LLMCache_set_stale(c, ts, size, prompt, model, response, t) ==
    LET key == _generate_key(prompt, model)
        full == Len(c) >= size
        oldest_key == OldestKey(ts)
        c1 == IF full THEN DictDel(c, oldest_key) ELSE c
    IN [cache |-> DictPut(c1, key, response), timestamps |-> DictPut(ts, key, t)]

\* LLMCache.set run to completion
LLMCache_set(c, ts, size, prompt, model, response, t) ==
    LET key == _generate_key(prompt, model)
        full == Len(c) >= size
        oldest_key == OldestKey(ts)
        c1 == IF full THEN DictDel(c, oldest_key) ELSE c
        ts1 == IF full THEN DictDel(ts, oldest_key) ELSE ts
    IN [cache |-> DictPut(c1, key, response), timestamps |-> DictPut(ts1, key, t)]

(***************************************************************************)
(* SpecCache: a test harness constructs LLMCache(max_size, ttl_seconds)    *)
(* and calls get and set, one call at a time.                              *)
(***************************************************************************)
CacheCalls == {<<Short("a"), "m1">>, <<Short("b"), "m1">>, <<Short("a"), "m2">>}
Responses == {[response |-> "r1"], [response |-> "r2"]}

NoOp == [op |-> "none"]

Threads == 1..NumThreads
IdleThread == [pc |-> "idle"]
NoThreads == [t \in Threads |-> IdleThread]

IdleFrame == [pc |-> "idle"]
NoHistory == [at |-> << >>, raised |-> << >>, sleeps |-> << >>, posts |-> << >>]
NoResult == [call |-> "none"]

\* no LLMService method is called
NoService ==
    /\ w = IdleFrame
    /\ cur = NoHistory
    /\ fetched = EmptyDict
    /\ result = NoResult
    /\ ncalls = 0

\* no analysis is stored
NoRepository == analyses = << >>

\* no rate-limited endpoint is called
NoLimiter ==
    /\ memory_store = EmptyDict
    /\ calls = << >>
    /\ limits = [t |-> "none"]

NewCache ==
    /\ cache = EmptyDict
    /\ timestamps = EmptyDict
    /\ max_size \in 1..MaxCap
    /\ ttl \in 1..MaxTtl
    /\ now = 0

InitCache ==
    /\ NewCache
    /\ setLog = << >>
    /\ lastOp = NoOp
    /\ thr = NoThreads
    /\ NoRepository
    /\ NoLimiter
    /\ NoService

\* time.time() moves on between two calls
Tick ==
    /\ now < MaxClock
    /\ now' = now + 1
    /\ lastOp' = [op |-> "tick"]
    /\ UNCHANGED <<cacheVars, setLog, outsideCache>>

Get(prompt, model) ==
    /\ LET r == LLMCache_get(cache, timestamps, prompt, model, now, ttl) IN
         /\ cache' = r.cache
         /\ timestamps' = r.timestamps
         /\ lastOp' = [op |-> "get", key |-> _generate_key(prompt, model), ret |-> r.ret]
    /\ UNCHANGED <<max_size, ttl, now, setLog, outsideCache>>

Set(prompt, model, response) ==
    /\ Len(setLog) < MaxSets
    /\ LET r == LLMCache_set(cache, timestamps, max_size, prompt, model, response, now) IN
         /\ cache' = r.cache
         /\ timestamps' = r.timestamps
    /\ setLog' = Append(setLog, [key |-> _generate_key(prompt, model),
                                 value |-> response, at |-> now])
    /\ lastOp' = [op |-> "set", key |-> _generate_key(prompt, model)]
    /\ UNCHANGED <<max_size, ttl, now, outsideCache>>

NextCache ==
    \/ Tick
    \/ \E c \in CacheCalls : Get(c[1], c[2])
    \/ \E c \in CacheCalls, r \in Responses : Set(c[1], c[2], r)

SpecCache == InitCache /\ [][NextCache]_vars

(***************************************************************************)
(* Claims about LLMCache (SpecCache)                                       *)
(***************************************************************************)
\* what get would return for a key in the current state
Peek(key) == LLMCache_get(cache, timestamps, key[2], key[1], now, ttl).ret

DistinctKeys(l) == \A i, j \in DOMAIN l : i # j => l[i].key # l[j].key

\* max_size+1 pairwise distinct keys have been set on the new cache,
\* and the first of them is not older than the ttl
OverflowedByOne ==
    /\ Len(setLog) = max_size + 1
    /\ DistinctKeys(setLog)
    /\ now - setLog[1].at < ttl

\* C2: after set was called for max_size+1 pairwise distinct keys on an empty
\* cache, all within the ttl, get returns the stored value of each of the
\* max_size keys set last and a miss for the key set first.
C2_EvictsOldestInserted ==
    OverflowedByOne =>
        /\ \A i \in 2..Len(setLog) : Peek(setLog[i].key) = setLog[i].value
        /\ Peek(setLog[1].key) = None

C2_Witness ==
    /\ OverflowedByOne
    /\ max_size = 2
    /\ lastOp.op = "get"
    /\ lastOp.key = setLog[1].key
    /\ setLog[1].at = setLog[2].at

\* C8: get returns the stored value exactly when the key is present and
\* now - created_at < ttl; a present entry with now - created_at >= ttl gives
\* a miss and is removed from the value map and from the timestamp map.
C8_GetHonoursTtl ==
    [][lastOp'.op = "get" =>
         LET k == lastOp'.key
             has == DictHas(cache, k)
             fresh == has /\ now - DictGet(timestamps, k) < ttl
         IN /\ fresh => /\ lastOp'.ret = DictGet(cache, k)
                         /\ cache' = cache
                         /\ timestamps' = timestamps
            /\ ~fresh => lastOp'.ret = None
            /\ (has /\ ~fresh) => /\ ~DictHas(cache', k)
                                   /\ ~DictHas(timestamps', k)
                                   /\ DictKeys(cache') = DictKeys(cache) \ {k}
            /\ ~has => cache' = cache /\ timestamps' = timestamps]_vars

\* a get found its entry exactly ttl old and removed it
C8_Witness ==
    /\ lastOp.op = "get"
    /\ lastOp.ret = None
    /\ Len(setLog) = 1
    /\ setLog[1].key = lastOp.key
    /\ now - setLog[1].at = ttl
    /\ cache = EmptyDict
    /\ timestamps = EmptyDict

\* C24: after any sequence of get and set calls made one at a time on a cache
\* with max_size >= 1, the value map and the timestamp map have the same keys
\* and hold at most max_size entries.
C24_MapsAgreeAndBounded ==
    /\ DictKeys(cache) = DictKeys(timestamps)
    /\ Len(cache) = Len(timestamps)
    /\ Len(cache) <= max_size

\* a set on a full cache has evicted an entry: the cache is full again
C24_Witness ==
    /\ lastOp.op = "set"
    /\ Len(setLog) > max_size
    /\ DistinctKeys(setLog)
    /\ Len(cache) = max_size
    /\ DictKeys(cache) = DictKeys(timestamps)

\* C25: set for a key that is present replaces the value and the timestamp
\* of that key and leaves every other entry in place, also when the cache is
\* at capacity.
C25_ResetKeepsOthers ==
    [][(lastOp'.op = "set" /\ DictHas(cache, lastOp'.key)) =>
         \A k \in DictKeys(cache) \ {lastOp'.key} :
             /\ DictHas(cache', k) /\ DictGet(cache', k) = DictGet(cache, k)
             /\ DictHas(timestamps', k) /\ DictGet(timestamps', k) = DictGet(timestamps, k)]_vars

(***************************************************************************)
(* SpecConc: threads share one LLMCache.  LLMCache holds no lock, so a     *)
(* call of one thread is interleaved with the calls of the others between  *)
(* any two dict operations.  A step is one dict operation of get (lines    *)
(* 32-40) or of set (lines 49-55); min() over the timestamps is taken as   *)
(* one step.  A thread whose call raised stays in pc "failed".             *)
(***************************************************************************)
ConcKeys == {_generate_key(c[1], c[2]) : c \in {<<Short("a"), "m1">>, <<Short("b"), "m1">>}}
ConcResponses == {[response |-> "r1"]}

InitConc ==
    /\ NewCache
    /\ setLog = << >>
    /\ lastOp = NoOp
    /\ thr = NoThreads
    /\ NoRepository
    /\ NoLimiter
    /\ NoService

Goto(t, rec) == thr' = [thr EXCEPT ![t] = rec]

Fail(t, e) == Goto(t, [pc |-> "failed", error |-> e])

TickConc ==
    /\ now < MaxClock
    /\ now' = now + 1
    /\ UNCHANGED <<cacheVars, thr, outsideConc>>

\* a thread enters LLMCache.get (line 30)
GetEnter(t, key) ==
    /\ thr[t].pc = "idle"
    /\ Goto(t, [pc |-> "get_in", key |-> key])
    /\ UNCHANGED <<cacheVars, now, outsideConc>>

\* line 32: if key in self.cache
GetTest(t) ==
    /\ thr[t].pc = "get_in"
    /\ IF DictHas(cache, thr[t].key)
       THEN Goto(t, [thr[t] EXCEPT !.pc = "get_age"])
       ELSE Goto(t, IdleThread)
    /\ UNCHANGED <<cacheVars, now, outsideConc>>

\* line 34: time.time() - self.timestamps[key] < self.ttl
GetAge(t) ==
    /\ thr[t].pc = "get_age"
    /\ IF ~DictHas(timestamps, thr[t].key)
       THEN Fail(t, "KeyError")
       ELSE IF now - DictGet(timestamps, thr[t].key) < ttl
            THEN Goto(t, [thr[t] EXCEPT !.pc = "get_ret"])
            ELSE Goto(t, [thr[t] EXCEPT !.pc = "get_del_cache"])
    /\ UNCHANGED <<cacheVars, now, outsideConc>>

\* line 36: return self.cache[key]
GetReturn(t) ==
    /\ thr[t].pc = "get_ret"
    /\ IF ~DictHas(cache, thr[t].key)
       THEN Fail(t, "KeyError")
       ELSE Goto(t, IdleThread)
    /\ UNCHANGED <<cacheVars, now, outsideConc>>

\* line 39: del self.cache[key]
GetDelCache(t) ==
    /\ thr[t].pc = "get_del_cache"
    /\ IF ~DictHas(cache, thr[t].key)
       THEN Fail(t, "KeyError") /\ cache' = cache
       ELSE /\ cache' = DictDel(cache, thr[t].key)
            /\ Goto(t, [thr[t] EXCEPT !.pc = "get_del_ts"])
    /\ UNCHANGED <<timestamps, max_size, ttl, now, outsideConc>>

\* line 40: del self.timestamps[key], then return None
GetDelTs(t) ==
    /\ thr[t].pc = "get_del_ts"
    /\ IF ~DictHas(timestamps, thr[t].key)
       THEN Fail(t, "KeyError") /\ timestamps' = timestamps
       ELSE /\ timestamps' = DictDel(timestamps, thr[t].key)
            /\ Goto(t, IdleThread)
    /\ UNCHANGED <<cache, max_size, ttl, now, outsideConc>>

\* a thread enters LLMCache.set (line 46)
SetEnter(t, key, response) ==
    /\ thr[t].pc = "idle"
    /\ Goto(t, [pc |-> "set_in", key |-> key, response |-> response])
    /\ UNCHANGED <<cacheVars, now, outsideConc>>

\* line 49: if len(self.cache) >= self.max_size
SetTest(t) ==
    /\ thr[t].pc = "set_in"
    /\ IF Len(cache) >= max_size
       THEN Goto(t, [thr[t] EXCEPT !.pc = "set_oldest"])
       ELSE Goto(t, [thr[t] EXCEPT !.pc = "set_store"])
    /\ UNCHANGED <<cacheVars, now, outsideConc>>

\* line 50: oldest_key = min(self.timestamps.keys(), ...)
SetOldest(t) ==
    /\ thr[t].pc = "set_oldest"
    /\ IF timestamps = EmptyDict
       THEN Fail(t, "ValueError")
       ELSE Goto(t, [pc |-> "set_evict_cache", key |-> thr[t].key,
                     response |-> thr[t].response, oldest_key |-> OldestKey(timestamps)])
    /\ UNCHANGED <<cacheVars, now, outsideConc>>

\* line 51: del self.cache[oldest_key]
SetEvictCache(t) ==
    /\ thr[t].pc = "set_evict_cache"
    /\ IF ~DictHas(cache, thr[t].oldest_key)
       THEN Fail(t, "KeyError") /\ cache' = cache
       ELSE /\ cache' = DictDel(cache, thr[t].oldest_key)
            /\ Goto(t, [thr[t] EXCEPT !.pc = "set_evict_ts"])
    /\ UNCHANGED <<timestamps, max_size, ttl, now, outsideConc>>

\* line 52: del self.timestamps[oldest_key]
SetEvictTs(t) ==
    /\ thr[t].pc = "set_evict_ts"
    /\ IF ~DictHas(timestamps, thr[t].oldest_key)
       THEN Fail(t, "KeyError") /\ timestamps' = timestamps
       ELSE /\ timestamps' = DictDel(timestamps, thr[t].oldest_key)
            /\ Goto(t, [pc |-> "set_store", key |-> thr[t].key,
                        response |-> thr[t].response])
    /\ UNCHANGED <<cache, max_size, ttl, now, outsideConc>>

\* line 54: self.cache[key] = response
SetStore(t) ==
    /\ thr[t].pc = "set_store"
    /\ cache' = DictPut(cache, thr[t].key, thr[t].response)
    /\ Goto(t, [thr[t] EXCEPT !.pc = "set_stamp"])
    /\ UNCHANGED <<timestamps, max_size, ttl, now, outsideConc>>

\* line 55: self.timestamps[key] = time.time(), then return
SetStamp(t) ==
    /\ thr[t].pc = "set_stamp"
    /\ timestamps' = DictPut(timestamps, thr[t].key, now)
    /\ Goto(t, IdleThread)
    /\ UNCHANGED <<cache, max_size, ttl, now, outsideConc>>

NextConc ==
    \/ TickConc
    \/ \E t \in Threads, k \in ConcKeys : GetEnter(t, k)
    \/ \E t \in Threads : GetTest(t)
    \/ \E t \in Threads : GetAge(t)
    \/ \E t \in Threads : GetReturn(t)
    \/ \E t \in Threads : GetDelCache(t)
    \/ \E t \in Threads : GetDelTs(t)
    \/ \E t \in Threads, k \in ConcKeys, r \in ConcResponses : SetEnter(t, k, r)
    \/ \E t \in Threads : SetTest(t)
    \/ \E t \in Threads : SetOldest(t)
    \/ \E t \in Threads : SetEvictCache(t)
    \/ \E t \in Threads : SetEvictTs(t)
    \/ \E t \in Threads : SetStore(t)
    \/ \E t \in Threads : SetStamp(t)

SpecConc == InitConc /\ [][NextConc]_vars

(***************************************************************************)
(* Claims about concurrent use of LLMCache (SpecConc)                      *)
(***************************************************************************)
AllReturned == \A t \in Threads : thr[t].pc = "idle"

\* C9: under any interleaving of get and set calls of two or more threads on
\* the shared cache no call fails, the value map and the timestamp map have
\* the same key set once all calls have returned, and the cache never holds
\* more than max_size entries.
C9_ConcurrentCallsAreSafe ==
    /\ \A t \in Threads : thr[t].pc # "failed"
    /\ AllReturned => DictKeys(cache) = DictKeys(timestamps)
    /\ Len(cache) <= max_size

\* the three parts of C9, each violated on its own
C9_NoCallFails == \A t \in Threads : thr[t].pc # "failed"

C9_MapsAgreeAtRest ==
    (\A t \in Threads : thr[t].pc = "idle") => DictKeys(cache) = DictKeys(timestamps)

C9_NeverOverCapacity == Len(cache) <= max_size

(***************************************************************************)
(* Python values of the records and texts handed to the analysis methods.  *)
(* A str is the sequence of its words, all lower case, and whether white   *)
(* space surrounds them; "" is the str without words and without padding.  *)
(* A word standing for a long run of text has the length of that run.      *)
(***************************************************************************)
Str(words, pad) == [t |-> "str", words |-> words, pad |-> pad]
Num(v) == [t |-> "int", v |-> v]

IsStr(v) == v.t = "str"
IsNumber(v) == v.t = "int"

\* bool(v)
Bool(v) == CASE v.t = "str" -> v.words # << >> \/ v.pad
             [] v.t = "int" -> v.v # 0
             [] OTHER -> FALSE

\* a or b
Or(a, b) == IF Bool(a) THEN a ELSE b

\* s.strip()
Strip(s) == [s EXCEPT !.pad = FALSE]

LongRun == 250      \* characters of the word "rant", a long run of text
MidRun == 60        \* characters of the word "story", a run of text of a few lines

WordLen(word) == CASE word = "rant" -> LongRun
                   [] word = "story" -> MidRun
                   [] word \in {"bad", "the", "wow", "sad"} -> 3
                   [] word \in {"scared", "honest"} -> 6
                   [] word \in {"good", "wish", "love", "hate", "many"} -> 4
                   [] word = "problem" -> 7
                   [] word = "versus" -> 6
                   [] word \in {"2024-01-01", "2024-01-02"} -> 10
                   [] OTHER -> 5

RECURSIVE SumLen(_)
SumLen(words) == IF words = << >> THEN 0 ELSE WordLen(Head(words)) + 1 + SumLen(Tail(words))

\* len(s) of a str without padding: the words and one blank between them
StrLen(s) == IF s.words = << >> THEN 0 ELSE SumLen(s.words) - 1

\* s[:n], cut at the last word that fits
RECURSIVE Clip(_, _)
Clip(s, n) ==
    IF StrLen(s) <= n THEN s
    ELSE Clip([s EXCEPT !.words = SubSeq(s.words, 1, Len(s.words) - 1)], n)

\* lst[:n]
Take(lst, n) == SubSeq(lst, 1, IF Len(lst) < n THEN Len(lst) ELSE n)

\* word in text.lower(): a substring test, keyword inside one of the words
Inside == {<<"happy", "unhappy">>}

Mentions(text, keyword) ==
    \E i \in DOMAIN text.words :
        text.words[i] = keyword \/ <<keyword, text.words[i]>> \in Inside

\* sum(1 for word in keywords if word in text_lower)
Hits(text, keywords) == Cardinality({k \in keywords : Mentions(text, k)})

\* round(num / den, 2) in hundredths, for num >= 0 and den > 0
Round2(num, den) == (200 * num + den) \div (2 * den)

\* d.get(key, default)
ItemGet(d, key, default) == IF key \in DOMAIN d THEN d[key] ELSE default

\* how a call ends: it returns a value or raises an exception
Return(v) == [kind |-> "return", value |-> v]
Raise(e) == [kind |-> "raise", exc |-> e]

(***************************************************************************)
(* Arithmetic of the statistics module on exact fractions <<num, den>>,    *)
(* den > 0.  round() is taken half away from zero.                         *)
(***************************************************************************)
RECURSIVE Gcd(_, _)
Gcd(a, b) == IF b = 0 THEN a ELSE Gcd(b, a % b)

Frac(n, d) ==
    LET g == Gcd(IF n < 0 THEN -n ELSE n, d) IN <<n \div g, d \div g>>

FAdd(a, b) == Frac(a[1] * b[2] + b[1] * a[2], a[2] * b[2])
FSub(a, b) == Frac(a[1] * b[2] - b[1] * a[2], a[2] * b[2])
FMul(a, b) == Frac(a[1] * b[1], a[2] * b[2])
FLess(a, b) == a[1] * b[2] < b[1] * a[2]
FAbs(a) == <<IF a[1] < 0 THEN -a[1] ELSE a[1], a[2]>>

RECURSIVE FSum(_)
FSum(xs) == IF xs = << >> THEN <<0, 1>> ELSE FAdd(Head(xs), FSum(Tail(xs)))

\* statistics.mean(xs), xs not empty
Mean(xs) == LET total == FSum(xs) IN Frac(total[1], total[2] * Len(xs))

\* statistics.variance(xs), Len(xs) > 1
Variance(xs) ==
    LET m == Mean(xs)
        sq == [i \in DOMAIN xs |-> FMul(FSub(xs[i], m), FSub(xs[i], m))]
        total == FSum(sq)
    IN Frac(total[1], total[2] * (Len(xs) - 1))

\* round(x, 2) and round(x, 1), in hundredths and in tenths
Round(x, unit) ==
    IF x[1] >= 0 THEN (2 * unit * x[1] + x[2]) \div (2 * x[2])
    ELSE -((2 * unit * (-x[1]) + x[2]) \div (2 * x[2]))

\* round(unit * sqrt(x)) for 0 <= x: the s with
\* (s - 1/2)^2 <= unit^2 x < (s + 1/2)^2
SqrtRound(x, unit) ==
    CHOOSE s \in 0..(unit * (x[1] + 1)) :
        /\ 4 * unit * unit * x[1] < (2 * s + 1) * (2 * s + 1) * x[2]
        /\ s > 0 => (2 * s - 1) * (2 * s - 1) * x[2] <= 4 * unit * unit * x[1]

\* position of key k in the sorted(items, key=value, reverse=True) of a dict
\* whose keys are `order` and whose values are v[k]: the sort is stable
SortedDesc(order, v) ==
    LET before(i, j) == v[order[i]] > v[order[j]] \/ (v[order[i]] = v[order[j]] /\ i < j)
        rank(j) == Cardinality({i \in DOMAIN order : before(i, j)}) + 1
    IN [r \in DOMAIN order |-> order[CHOOSE j \in DOMAIN order : rank(j) = r]]

\* max(d.items(), key=value)[0]: the first key of greatest value
FirstMax(order, v) == SortedDesc(order, v)[1]

(***************************************************************************)
(* AdvancedContentAnalyzer: lexicons, lines 20-45                          *)
(***************************************************************************)
Emotions == <<"joy", "anger", "fear", "surprise", "sadness", "trust">>

emotion_keywords ==
    [joy |-> {"happy", "excited", "amazing", "wonderful", "fantastic", "love", "great",
              "excellent"},
     anger |-> {"angry", "frustrated", "terrible", "awful", "horrible", "hate", "worst",
                "disgusting"},
     fear |-> {"worried", "scared", "concerned", "afraid", "nervous", "uncertain", "risk",
               "dangerous"},
     surprise |-> {"unexpected", "surprising", "wow", "incredible", "unbelievable",
                   "shocking"},
     sadness |-> {"disappointed", "sad", "depressed", "unhappy", "upset", "regret", "sorry"},
     trust |-> {"reliable", "trustworthy", "dependable", "honest", "authentic", "genuine",
                "quality"}]

Intents == <<"purchase_intent", "complaint", "compliment", "feature_request",
             "support_needed">>

business_intent_keywords ==
    [purchase_intent |-> {"buy", "purchase", "order", "get", "want", "need", "shopping",
                          "price"},
     complaint |-> {"problem", "issue", "broken", "defective", "wrong", "error", "complaint",
                    "refund"},
     compliment |-> {"thank", "appreciate", "recommend", "satisfied", "perfect", "impressed"},
     feature_request |-> {"wish", "hope", "would like", "suggestion", "improve", "add",
                          "feature", "update"},
     support_needed |-> {"help", "assistance", "support", "how to", "question", "confused",
                         "unclear"}]

Aspects == <<"quality", "price", "design", "performance", "usability", "support",
             "delivery">>

product_aspects ==
    [quality |-> {"quality", "build", "material", "construction", "durable", "solid",
                  "cheap", "flimsy"},
     price |-> {"price", "cost", "expensive", "cheap", "value", "money", "affordable",
                "budget"},
     design |-> {"design", "look", "appearance", "style", "color", "beautiful", "ugly",
                 "attractive"},
     performance |-> {"performance", "speed", "fast", "slow", "efficient", "lag", "smooth",
                      "responsive"},
     usability |-> {"easy", "difficult", "user-friendly", "complicated", "intuitive",
                    "confusing"},
     support |-> {"support", "service", "help", "response", "staff", "team",
                  "customer service"},
     delivery |-> {"delivery", "shipping", "fast", "slow", "arrived", "late", "on time",
                   "packaging"}]

\* lines 106-107
positive_words == {"good", "great", "excellent", "amazing", "wonderful", "fantastic", "love",
                   "perfect", "best"}
negative_words == {"bad", "terrible", "awful", "horrible", "worst", "hate", "disappointing",
                   "poor"}

(***************************************************************************)
(* AdvancedContentAnalyzer: the analyses of a batch of texts               *)
(***************************************************************************)
\* lines 84-99
_extract_texts(content_list) ==
    LET text(i) == Or(ItemGet(content_list[i], "text", None),
                   Or(ItemGet(content_list[i], "description", None),
                   Or(ItemGet(content_list[i], "caption", None),
                   Or(ItemGet(content_list[i], "content", None),
                   Or(ItemGet(content_list[i], "review_text", None),
                   Or(ItemGet(content_list[i], "comment", None), Str(<< >>, FALSE)))))))
        keep(i) == Bool(text(i)) /\ IsStr(text(i)) /\ StrLen(Strip(text(i))) > 0
        RECURSIVE collect(_)
        collect(i) == IF i > Len(content_list) THEN << >>
                      ELSE IF keep(i) THEN <<Strip(text(i))>> \o collect(i + 1)
                      ELSE collect(i + 1)
    IN collect(1)

\* a slip: the hits are not normalised
TextScoreDifference(text) ==
    LET pos_count == Hits(text, positive_words)
        neg_count == Hits(text, negative_words)
    IN Frac(pos_count - neg_count, 1)

\* lines 110-120: the score of one text
TextScore(text) ==
    LET pos_count == Hits(text, positive_words)
        neg_count == Hits(text, negative_words)
    IN IF pos_count + neg_count = 0 THEN Frac(0, 1)
       ELSE Frac(pos_count - neg_count, pos_count + neg_count)

\* lines 125-130
SentimentLabel(avg_score) ==
    IF FLess(Frac(1, 10), avg_score) THEN "positive"
    ELSE IF FLess(avg_score, Frac(-1, 10)) THEN "negative"
    ELSE "neutral"

\* lines 101-146; confidence, intensity and score in hundredths
_analyze_basic_sentiment(texts) ==
    IF texts = << >>
    THEN [sentiment |-> "neutral", confidence |-> 0, intensity |-> 0]
    ELSE LET scores == [i \in DOMAIN texts |-> TextScore(texts[i])]
             avg_score == Mean(scores)
             stdev == IF Len(scores) > 1 THEN SqrtRound(Variance(scores), 100) ELSE 0
         IN [sentiment |-> SentimentLabel(avg_score),
             confidence |-> 100 - stdev,
             intensity |-> Round(FAbs(avg_score), 100),
             score |-> Round(avg_score, 100),
             distribution |->
                 [positive |-> Cardinality({i \in DOMAIN scores : FLess(Frac(1, 10), scores[i])}),
                  negative |-> Cardinality({i \in DOMAIN scores : FLess(scores[i], Frac(-1, 10))}),
                  neutral |-> Cardinality({i \in DOMAIN scores :
                                  ~FLess(Frac(1, 10), scores[i]) /\ ~FLess(scores[i], Frac(-1, 10))})]]

RECURSIVE SumOver(_, _)
SumOver(f, keys) == IF keys = << >> THEN 0 ELSE f[Head(keys)] + SumOver(f, Tail(keys))

RECURSIVE TotalHits(_, _)
TotalHits(texts, keywords) ==
    IF texts = << >> THEN 0 ELSE Hits(Head(texts), keywords) + TotalHits(Tail(texts), keywords)

SeqToSet(q) == {q[i] : i \in DOMAIN q}

\* lines 148-179; the distribution in hundredths
_analyze_emotions(texts) ==
    LET names == SeqToSet(Emotions)
        emotion_scores == [e \in names |-> TotalHits(texts, emotion_keywords[e])]
        total_mentions == SumOver(emotion_scores, Emotions)
        emotion_distribution ==
            IF total_mentions > 0
            THEN [e \in names |-> Round(Frac(emotion_scores[e], total_mentions), 100)]
            ELSE emotion_scores
        ranked == Take(SortedDesc(Emotions, emotion_distribution), 3)
    IN [emotion_distribution |-> emotion_distribution,
        dominant_emotions |-> SelectSeq(ranked, LAMBDA e : emotion_distribution[e] > 0),
        emotion_intensity |-> emotion_distribution[FirstMax(Emotions, emotion_distribution)],
        mixed_emotions |-> Cardinality({e \in names : emotion_distribution[e] > 10}) > 1]

\* lines 190: the stop words among the words of the model
stop_words == {"the", "and", "this", "that", "was", "are", "for", "with"}

RECURSIVE Concat(_)
Concat(texts) == IF texts = << >> THEN << >> ELSE Head(texts).words \o Concat(Tail(texts))

RECURSIVE Dedup(_)
Dedup(q) == IF q = << >> THEN << >>
            ELSE LET rest == Dedup(SubSeq(q, 1, Len(q) - 1)) IN
                 IF Last(q) \in SeqToSet(rest) THEN rest ELSE Append(rest, Last(q))

Count(q, x) == Cardinality({i \in DOMAIN q : q[i] = x})

\* lines 181-206
_extract_topics(texts) ==
    LET words == SelectSeq(Concat(texts), LAMBDA x : x \notin stop_words /\ WordLen(x) >= 3)
        unique == Dedup(words)
        word_freq == [x \in SeqToSet(unique) |-> Count(words, x)]
        top_topics == Take(SortedDesc(unique, word_freq), 10)
    IN [top_topics |-> [i \in DOMAIN top_topics |->
                           [topic |-> top_topics[i], frequency |-> word_freq[top_topics[i]]]],
        total_unique_topics |-> Len(unique),
        topic_diversity |-> IF words # << >> THEN Frac(Len(unique), Len(words)) ELSE Frac(0, 1)]

\* lines 208-228
_analyze_aspect_sentiment(texts) ==
    LET aspect_texts(a) == SelectSeq(texts, LAMBDA x : Hits(x, product_aspects[a]) > 0)
        found == {a \in SeqToSet(Aspects) : aspect_texts(a) # << >>}
    IN [a \in found |->
           LET sentiment_result == _analyze_basic_sentiment(aspect_texts(a)) IN
           [sentiment |-> sentiment_result.sentiment,
            score |-> sentiment_result.score,
            mentions |-> Len(aspect_texts(a)),
            confidence |-> sentiment_result.confidence]]

\* lines 230-257; the distribution in hundredths
_analyze_intent(texts) ==
    LET names == SeqToSet(Intents)
        intent_scores == [n \in names |-> TotalHits(texts, business_intent_keywords[n])]
        total_score == SumOver(intent_scores, Intents)
        intent_distribution ==
            IF total_score > 0
            THEN [n \in names |-> Round(Frac(intent_scores[n], total_score), 100)]
            ELSE intent_scores
        primary == FirstMax(Intents, intent_distribution)
    IN [primary_intent |-> IF total_score > 0 THEN primary ELSE "unknown",
        intent_confidence |-> IF total_score > 0 THEN intent_distribution[primary] ELSE 0,
        intent_distribution |-> intent_distribution,
        mixed_intent |-> Cardinality({n \in names : intent_distribution[n] > 20}) > 1]

\* text[:100] + '...' if len(text) > 100 else text
Excerpt(text) ==
    IF StrLen(text) > 100 THEN [text EXCEPT !.words = Clip(text, 100).words \o <<"...">>]
    ELSE text

\* lines 259-287
_generate_business_insights(texts, content_list) ==
    LET opportunity_keywords == {"want", "need", "wish", "hope", "would like", "missing", "lack"}
        risk_keywords == {"problem", "issue", "complaint", "disappointed", "angry", "frustrated"}
        about(keywords) == SelectSeq(texts, LAMBDA x : Hits(x, keywords) > 0)
        excerpts(q) == [i \in DOMAIN q |-> Excerpt(q[i])]
    IN [key_opportunities |-> Take(excerpts(about(opportunity_keywords)), 5),
        risk_areas |-> Take(excerpts(about(risk_keywords)), 5),
        improvement_suggestions |-> << >>,
        competitive_advantages |-> << >>,
        customer_needs |-> << >>]

\* the order of the strings that min() and max() compare, lines 310
Collation == <<"2024-01-01", "2024-01-02">>

Position(q, x) == CHOOSE i \in DOMAIN q : q[i] = x

StrBefore(a, b) == Position(Collation, a.words[1]) < Position(Collation, b.words[1])

\* lines 289-314
_analyze_temporal_patterns(content_list) ==
    LET date_str(i) == Or(ItemGet(content_list[i], "date", None),
                       Or(ItemGet(content_list[i], "created_at", None),
                          ItemGet(content_list[i], "timestamp", None)))
        RECURSIVE collect(_)
        collect(i) == IF i > Len(content_list) THEN << >>
                      ELSE IF Bool(date_str(i)) /\ IsStr(date_str(i))
                           THEN <<Clip(date_str(i), 10)>> \o collect(i + 1)
                      ELSE collect(i + 1)
        dates == collect(1)
        days == Dedup(dates)
        date_counts == [d \in SeqToSet(days) |-> Count(dates, d)]
        earliest == CHOOSE d \in SeqToSet(days) : \A e \in SeqToSet(days) : ~StrBefore(e, d)
        latest == CHOOSE d \in SeqToSet(days) : \A e \in SeqToSet(days) : ~StrBefore(d, e)
        peaks == Take(SortedDesc(days, date_counts), 3)
    IN IF dates = << >> THEN [temporal_data |-> FALSE]
       ELSE [temporal_data |-> TRUE,
             date_range |-> [start |-> earliest, end |-> latest],
             post_frequency |-> Frac(Len(dates), Len(days)),
             peak_dates |-> [i \in DOMAIN peaks |-> <<peaks[i], date_counts[peaks[i]]>>],
             trend |-> IF Len(dates) > 10 THEN "increasing" ELSE "stable"]

\* lines 320-324
EngagementOf(item) ==
    [likes |-> ItemGet(item, "like_count", ItemGet(item, "likes", Num(0))),
     comments |-> ItemGet(item, "reply_count",
                          ItemGet(item, "comment_count", ItemGet(item, "comments", Num(0)))),
     shares |-> ItemGet(item, "retweet_count",
                        ItemGet(item, "share_count", ItemGet(item, "shares", Num(0))))]

\* lines 316-348; the averages in tenths.  statistics.mean raises TypeError
\* on a value that is not a number
_analyze_engagement_patterns(content_list, platform) ==
    LET engagements == [i \in DOMAIN content_list |-> EngagementOf(content_list[i])]
        numeric(k) == \A i \in DOMAIN engagements : IsNumber(engagements[i][k])
        avg(k) == Mean([i \in DOMAIN engagements |-> Frac(engagements[i][k].v, 1)])
        total_engagement == FAdd(avg("likes"), FAdd(avg("comments"), avg("shares")))
        sum(i) == engagements[i].likes.v + engagements[i].comments.v + engagements[i].shares.v
        best == CHOOSE i \in DOMAIN engagements :
                    \A j \in DOMAIN engagements : sum(j) < sum(i) \/ (sum(j) = sum(i) /\ i <= j)
    IN IF engagements = << >> THEN Return([engagement_data |-> FALSE])
       ELSE IF ~(numeric("likes") /\ numeric("comments") /\ numeric("shares"))
       THEN Raise([type |-> "TypeError", msg |-> "can't convert type to numerator/denominator"])
       ELSE Return(
            [engagement_data |-> TRUE,
             average_engagement |-> [likes |-> Round(avg("likes"), 10),
                                     comments |-> Round(avg("comments"), 10),
                                     shares |-> Round(avg("shares"), 10)],
             total_avg_engagement |-> Round(total_engagement, 10),
             engagement_rate |-> IF FLess(Frac(100, 1), total_engagement) THEN "high"
                                 ELSE IF FLess(Frac(20, 1), total_engagement) THEN "medium"
                                 ELSE "low",
             best_performing |-> engagements[best]])

FMin(a, b) == IF FLess(a, b) THEN a ELSE b

\* a slip: the richness bonus has no cap
_assess_content_quality_uncapped(texts) ==
    IF texts = << >> THEN [quality_score |-> 0]
    ELSE LET lengths == [i \in DOMAIN texts |-> Frac(StrLen(texts[i]), 1)]
             total_length == FSum(lengths)[1]
             avg_length == Mean(lengths)
             readability == IF FLess(Frac(50, 1), avg_length) /\ FLess(avg_length, Frac(200, 1))
                            THEN "good" ELSE "needs_improvement"
             content_richness == IF total_length > 0
                                 THEN Frac(Cardinality(SeqToSet(Concat(texts))), total_length)
                                 ELSE Frac(0, 1)
             base == IF readability = "good" THEN Frac(7, 10) ELSE Frac(4, 10)
             quality_score == FAdd(base, FMul(content_richness, Frac(10, 1)))
         IN [quality_score |-> Round(quality_score, 100),
             quality_indicators |->
                 [average_length |-> avg_length,
                  length_variance |-> IF Len(texts) > 1 THEN SqrtRound(Variance(lengths), 1) ELSE 0,
                  readability |-> readability,
                  content_richness |-> content_richness]]

\* lines 350-373; quality_score in hundredths, length_variance in whole characters
_assess_content_quality(texts) ==
    IF texts = << >> THEN [quality_score |-> 0]
    ELSE LET lengths == [i \in DOMAIN texts |-> Frac(StrLen(texts[i]), 1)]
             total_length == FSum(lengths)[1]
             avg_length == Mean(lengths)
             readability == IF FLess(Frac(50, 1), avg_length) /\ FLess(avg_length, Frac(200, 1))
                            THEN "good" ELSE "needs_improvement"
             content_richness == IF total_length > 0
                                 THEN Frac(Cardinality(SeqToSet(Concat(texts))), total_length)
                                 ELSE Frac(0, 1)
             base == IF readability = "good" THEN Frac(7, 10) ELSE Frac(4, 10)
             quality_score == FAdd(base, FMin(FMul(content_richness, Frac(10, 1)), Frac(3, 10)))
         IN [quality_score |-> Round(quality_score, 100),
             quality_indicators |->
                 [average_length |-> avg_length,
                  length_variance |-> IF Len(texts) > 1 THEN SqrtRound(Variance(lengths), 1) ELSE 0,
                  readability |-> readability,
                  content_richness |-> content_richness]]

\* lines 375-389
_extract_competitive_insights(texts) ==
    LET comparison_keywords == {"better than", "worse than", "compared to", "vs", "versus",
                                "alternative to"}
        found == SelectSeq(texts, LAMBDA x : Hits(x, comparison_keywords) > 0)
        competitor_mentions == [i \in DOMAIN found |-> Excerpt(found[i])]
    IN [competitor_mentions |-> Take(competitor_mentions, 5),
        competitive_context |-> Len(competitor_mentions) > 0,
        comparison_frequency |-> IF texts # << >> THEN Frac(Len(competitor_mentions), Len(texts))
                                 ELSE Frac(0, 1)]

Recommendation(type, category, action, priority) ==
    [type |-> type, category |-> category, action |-> action, priority |-> priority]

\* a slip: the intent rules are tried only when the sentiment rule did not fire
_generate_recommendations_chained(analysis_result) ==
    LET sentiment == analysis_result.basic_sentiment.sentiment
        primary_intent == analysis_result.intent_analysis.primary_intent
        engagement == analysis_result.engagement_analysis
    IN (IF sentiment = "negative"
        THEN <<Recommendation("urgent", "customer_service",
                              "Address negative sentiment immediately", "high")>>
        ELSE IF primary_intent = "complaint"
        THEN <<Recommendation("reactive", "support",
                              "Improve customer support response", "high")>>
        ELSE IF primary_intent = "feature_request"
        THEN <<Recommendation("strategic", "product_development",
                              "Analyze feature requests for product roadmap", "medium")>>
        ELSE << >>)
       \o
       (IF engagement.engagement_data /\ engagement.engagement_rate = "low"
        THEN <<Recommendation("strategic", "content_strategy",
                              "Improve content engagement strategy", "medium")>>
        ELSE << >>)

\* lines 391-437
_generate_recommendations(analysis_result) ==
    LET sentiment == analysis_result.basic_sentiment.sentiment
        primary_intent == analysis_result.intent_analysis.primary_intent
        engagement == analysis_result.engagement_analysis
    IN (IF sentiment = "negative"
        THEN <<Recommendation("urgent", "customer_service",
                              "Address negative sentiment immediately", "high")>>
        ELSE << >>)
       \o
       (IF primary_intent = "complaint"
        THEN <<Recommendation("reactive", "support",
                              "Improve customer support response", "high")>>
        ELSE IF primary_intent = "feature_request"
        THEN <<Recommendation("strategic", "product_development",
                              "Analyze feature requests for product roadmap", "medium")>>
        ELSE << >>)
       \o
       (IF engagement.engagement_data /\ engagement.engagement_rate = "low"
        THEN <<Recommendation("strategic", "content_strategy",
                              "Improve content engagement strategy", "medium")>>
        ELSE << >>)

\* lines 439-453
_empty_analysis_result ==
    [basic_sentiment |-> [sentiment |-> "neutral", confidence |-> 0, intensity |-> 0],
     emotion_analysis |-> [emotion_distribution |-> << >>, dominant_emotions |-> << >>],
     topic_analysis |-> [top_topics |-> << >>, total_unique_topics |-> 0],
     aspect_sentiment |-> << >>,
     intent_analysis |-> [primary_intent |-> "unknown", intent_confidence |-> 0],
     business_insights |-> [key_opportunities |-> << >>, risk_areas |-> << >>],
     temporal_analysis |-> [temporal_data |-> FALSE],
     engagement_analysis |-> [engagement_data |-> FALSE],
     content_quality |-> [quality_score |-> 0],
     competitive_intelligence |-> [competitor_mentions |-> << >>],
     actionable_recommendations |-> << >>]

\* line 75
WithRecommendations(analysis_result) ==
    [analysis_result EXCEPT
        !.actionable_recommendations = _generate_recommendations(analysis_result)]

\* lines 55-78: the analyses of the texts, given what the engagement analysis
\* of line 68 returns or raises
Analyses(texts, content_list, engagement) ==
    IF texts = << >> THEN Return(_empty_analysis_result)
    ELSE IF engagement.kind = "raise" THEN engagement
    ELSE Return(WithRecommendations(
            [basic_sentiment |-> _analyze_basic_sentiment(texts),
             emotion_analysis |-> _analyze_emotions(texts),
             topic_analysis |-> _extract_topics(texts),
             aspect_sentiment |-> _analyze_aspect_sentiment(texts),
             intent_analysis |-> _analyze_intent(texts),
             business_insights |-> _generate_business_insights(texts, content_list),
             temporal_analysis |-> _analyze_temporal_patterns(content_list),
             engagement_analysis |-> engagement.value,
             content_quality |-> _assess_content_quality(texts),
             competitive_intelligence |-> _extract_competitive_insights(texts),
             actionable_recommendations |-> << >>]))

\* lines 52-78: the body of the try block
Pipeline(content_list, platform) ==
    Analyses(_extract_texts(content_list), content_list,
             _analyze_engagement_patterns(content_list, platform))

\* lines 51 and 80-82: whatever the body raises becomes the empty result
Guarded(o) == IF o.kind = "raise" THEN Return(_empty_analysis_result) ELSE o

\* a slip: the pipeline runs outside any try block
comprehensive_analysis_unguarded(content_list, platform) == Pipeline(content_list, platform)

\* lines 47-82
comprehensive_analysis(content_list, platform) == Guarded(Pipeline(content_list, platform))

\* lines 455-494: the report, by the values it is written from
generate_summary_report(analysis_result) ==
    LET needed == {"basic_sentiment", "intent_analysis", "emotion_analysis", "business_insights",
                   "content_quality", "actionable_recommendations", "engagement_analysis"}
        eng == analysis_result.engagement_analysis
        recs == Take(analysis_result.actionable_recommendations, 5)
    IN IF ~(needed \subseteq DOMAIN analysis_result)
       THEN [text |-> "Error generating summary report"]
       ELSE [text |-> "Content Analysis Summary Report",
             sentiment |-> analysis_result.basic_sentiment.sentiment,
             confidence |-> analysis_result.basic_sentiment.confidence,
             primary_intent |-> analysis_result.intent_analysis.primary_intent,
             dominant_emotions |-> Take(analysis_result.emotion_analysis.dominant_emotions, 3),
             opportunities |-> Len(analysis_result.business_insights.key_opportunities),
             risks |-> Len(analysis_result.business_insights.risk_areas),
             quality |-> analysis_result.content_quality.quality_score,
             recommendations |-> [i \in DOMAIN recs |-> recs[i].action],
             engagement |-> IF eng.engagement_data
                            THEN <<eng.engagement_rate, eng.average_engagement.likes,
                                   eng.average_engagement.comments>>
                            ELSE <<"No engagement data available">>]

(***************************************************************************)
(* retry_on_failure                                                        *)
(***************************************************************************)

\* raise None, which Python turns into a TypeError
RaiseNone == Raise([type |-> "TypeError", msg |-> "exceptions must derive from BaseException"])

\* a slip: the sleep doubles with every attempt (1, 2, 4, ... times delay)
BackoffDoubling(delay, attempt) == delay * (2 ^ attempt)

\* line 75: time.sleep(delay * (attempt + 1)), attempt counted from 0
Backoff(delay, attempt) == delay * (attempt + 1)

\* a slip: one pass more than max_retries
InRangeInclusive(max_retries, attempt) == attempt <= max_retries

\* line 68: for attempt in range(max_retries)
InRange(max_retries, attempt) == attempt < max_retries

\* line 73: if attempt < max_retries - 1
MoreAttempts(max_retries, attempt) == attempt < max_retries - 1

\* wrapper, lines 65-68: the call enters the loop over range(max_retries)
WrapperEnter(wrapped, max_retries, delay, caller, args) ==
    IF InRange(max_retries, 0)
    THEN [pc |-> "running", wrapped |-> wrapped, max_retries |-> max_retries,
          delay |-> delay, attempt |-> 0, caller |-> caller, args |-> args]
    ELSE [pc |-> "done", wrapped |-> wrapped, max_retries |-> max_retries,
          delay |-> delay, attempt |-> 0, caller |-> caller, args |-> args,
          outcome |-> RaiseNone]

\* wrapper, lines 69-79: one pass of the loop body, given what func did;
\* sleep is the time the pass spends in time.sleep
WrapperPass(frame, o) ==
    IF o.kind = "return"
    THEN [frame |-> [frame EXCEPT !.pc = "done"] @@ [outcome |-> o], sleep |-> 0, slept |-> FALSE]
    ELSE LET slept == MoreAttempts(frame.max_retries, frame.attempt)
             sleep == IF slept THEN Backoff(frame.delay, frame.attempt) ELSE 0
         IN IF InRange(frame.max_retries, frame.attempt + 1)
            THEN [frame |-> [frame EXCEPT !.attempt = @ + 1], sleep |-> sleep, slept |-> slept]
            ELSE [frame |-> [frame EXCEPT !.pc = "done"] @@ [outcome |-> o],
                  sleep |-> sleep, slept |-> slept]

(***************************************************************************)
(* The remote generation service, as requests.post sees it                 *)
(***************************************************************************)
\* response.json() of a 200 answer
Bodies == { [response |-> "json_full"],      \* text is the JSON asked for
            [response |-> "json_partial"],   \* text is JSON lacking a field
            [response |-> "prose"],          \* text is not JSON
            [done |-> TRUE],                 \* an object without "response"
            << >> }                          \* the empty object {}

RemoteAnswers ==
    {[net |-> n, status |-> 0, parses |-> FALSE, json |-> None] : n \in {"timeout", "connection"}}
    \cup {[net |-> "ok", status |-> 200, parses |-> TRUE, json |-> b] : b \in Bodies}
    \cup {[net |-> "ok", status |-> 200, parses |-> FALSE, json |-> None]}
    \cup {[net |-> "ok", status |-> 500, parses |-> TRUE, json |-> None]}

(***************************************************************************)
(* LLMService._generate_response, the function under the decorator         *)
(***************************************************************************)
CacheMaxSize == 100
CacheTtl == 3600
RetryMax == 2
RetryDelay == 2
model_name == "deepseek-r1:8b"

\* lines 455-470: every exception of the try block is raised again as Exception
TransportError(remote, n) ==
    [type |-> "Exception", n |-> n,
     msg |-> CASE remote.net = "timeout" -> "LLM API timeout"
               [] remote.net = "connection" -> "Failed to connect to LLM API"
               [] remote.net = "request" -> "LLM API request failed"
               [] OTHER -> "Unexpected LLM error"]

\* a slip: no prompt is ever cut
TruncateNever(prompt) == prompt

\* lines 414-415

Truncate(prompt) ==
    IF PromptLen(prompt) > max_prompt_length
    THEN PromptPlusNotice(PromptPrefix(prompt))
    ELSE prompt

\* a slip: the answer of a non-200 reply is cached like a 200 one
_generate_response_caching_errors(prompt, remote, c, ts, t, n) ==
    LET looked == LLMCache_get(c, ts, prompt, model_name, t, CacheTtl)
        sent == Truncate(prompt)
        post == [prompt |-> sent, status |-> remote.status, net |-> remote.net,
                 parses |-> remote.parses]
        answer == IF remote.status = 200 THEN remote.json ELSE [error |-> "LLM API error"]
        stored == LLMCache_set(looked.cache, looked.timestamps, CacheMaxSize,
                               sent, model_name, answer, t)
    IN IF Truthy(looked.ret)
       THEN [outcome |-> Return(looked.ret), cache |-> looked.cache,
             timestamps |-> looked.timestamps, posts |-> << >>, fetched |-> FALSE]
       ELSE IF remote.net # "ok" \/ (remote.status = 200 /\ ~remote.parses)
       THEN [outcome |-> Raise(TransportError(remote, n)), cache |-> looked.cache,
             timestamps |-> looked.timestamps, posts |-> <<post>>, fetched |-> FALSE]
       ELSE [outcome |-> Return(answer), cache |-> stored.cache,
             timestamps |-> stored.timestamps, posts |-> <<post>>,
             fetched |-> remote.status = 200]

\* a slip: a non-200 answer is raised like a transport failure
_generate_response_raising(prompt, remote, c, ts, t, n) ==
    LET looked == LLMCache_get(c, ts, prompt, model_name, t, CacheTtl)
        sent == Truncate(prompt)
        post == [prompt |-> sent, status |-> remote.status, net |-> remote.net,
                 parses |-> remote.parses]
        stored == LLMCache_set(looked.cache, looked.timestamps, CacheMaxSize,
                               sent, model_name, remote.json, t)
    IN IF Truthy(looked.ret)
       THEN [outcome |-> Return(looked.ret), cache |-> looked.cache,
             timestamps |-> looked.timestamps, posts |-> << >>, fetched |-> FALSE]
       ELSE IF remote.net # "ok"
       THEN [outcome |-> Raise(TransportError(remote, n)), cache |-> looked.cache,
             timestamps |-> looked.timestamps, posts |-> <<post>>, fetched |-> FALSE]
       ELSE IF remote.status = 200
       THEN IF remote.parses
            THEN [outcome |-> Return(remote.json), cache |-> stored.cache,
                  timestamps |-> stored.timestamps, posts |-> <<post>>, fetched |-> TRUE]
            ELSE [outcome |-> Raise(TransportError(remote, n)), cache |-> looked.cache,
                  timestamps |-> looked.timestamps, posts |-> <<post>>, fetched |-> FALSE]
       ELSE [outcome |-> Raise(TransportError(remote, n)), cache |-> looked.cache,
             timestamps |-> looked.timestamps, posts |-> <<post>>, fetched |-> FALSE]

\* lines 406-470: one invocation, number n of this call, at time t, with the
\* remote answering as `remote` if it is asked
_generate_response(prompt, remote, c, ts, t, n) ==
    LET looked == LLMCache_get(c, ts, prompt, model_name, t, CacheTtl)
        sent == Truncate(prompt)
        post == [prompt |-> sent, status |-> remote.status, net |-> remote.net,
                 parses |-> remote.parses]
        stored == LLMCache_set(looked.cache, looked.timestamps, CacheMaxSize,
                               sent, model_name, remote.json, t)
    IN IF Truthy(looked.ret)
       THEN [outcome |-> Return(looked.ret), cache |-> looked.cache,
             timestamps |-> looked.timestamps, posts |-> << >>, fetched |-> FALSE]
       ELSE IF remote.net # "ok"
       THEN [outcome |-> Raise(TransportError(remote, n)), cache |-> looked.cache,
             timestamps |-> looked.timestamps, posts |-> <<post>>, fetched |-> FALSE]
       ELSE IF remote.status = 200
       THEN IF remote.parses
            THEN [outcome |-> Return(remote.json), cache |-> stored.cache,
                  timestamps |-> stored.timestamps, posts |-> <<post>>, fetched |-> TRUE]
            ELSE [outcome |-> Raise(TransportError(remote, n)), cache |-> looked.cache,
                  timestamps |-> looked.timestamps, posts |-> <<post>>, fetched |-> FALSE]
       ELSE [outcome |-> Return([error |-> "LLM API error"]), cache |-> looked.cache,
             timestamps |-> looked.timestamps, posts |-> <<post>>, fetched |-> FALSE]

(***************************************************************************)
(* LLMService.analyze_sentiment and its fallback                           *)
(***************************************************************************)
\* lines 187-188
llm_positive_words == {"good", "great", "excellent", "amazing", "love", "best",
                       "fantastic", "awesome"}
llm_negative_words == {"bad", "terrible", "awful", "hate", "worst", "horrible",
                       "disappointing"}

Max(a, b) == IF a > b THEN a ELSE b

\* lines 183-228
_fallback_sentiment_analysis(texts) ==
    LET pos_score(i) == Hits(texts[i], llm_positive_words)
        neg_score(i) == Hits(texts[i], llm_negative_words)
        positive_count == Cardinality({i \in DOMAIN texts : pos_score(i) > neg_score(i)})
        negative_count == Cardinality({i \in DOMAIN texts : neg_score(i) > pos_score(i)})
        neutral_count == Len(texts) - positive_count - negative_count
        total == Len(texts)
        sentiment == IF positive_count > Max(negative_count, neutral_count) THEN "positive"
                     ELSE IF negative_count > Max(positive_count, neutral_count) THEN "negative"
                     ELSE "neutral"
        count == CASE sentiment = "positive" -> positive_count
                   [] sentiment = "negative" -> negative_count
                   [] OTHER -> neutral_count
    IN IF total = 0
       THEN Raise([type |-> "ZeroDivisionError", msg |-> "division by zero"])
       ELSE Return([sentiment |-> sentiment,
                    confidence |-> Round2(count, total),
                    themes |-> <<"automated_analysis">>,
                    counts |-> [positive |-> positive_count,
                                negative |-> negative_count,
                                neutral |-> neutral_count]])

\* line 148: [text.strip()[:200] for text in texts if text.strip()][:20]
CleanTexts(texts) ==
    LET stripped == [i \in DOMAIN texts |-> Strip(texts[i])]
        kept == SelectSeq(stripped, Bool)
    IN Take([i \in DOMAIN kept |-> Clip(kept[i], 200)], 20)

\* lines 151-161
SentimentPrompt(clean_texts) == MkPrompt([sentiment |-> clean_texts], FALSE, "")

\* lines 139-144
NoTextsResult ==
    [sentiment |-> "neutral", confidence |-> 0, themes |-> << >>,
     counts |-> [positive |-> 0, negative |-> 0, neutral |-> 0]]

\* json.loads(response["response"]): the object the text spells, if it is JSON
JsonLoads(text) ==
    CASE text = "json_full" ->
            Return([sentiment |-> "positive", confidence |-> 85,
                    themes |-> <<"theme1", "theme2">>,
                    counts |-> [positive |-> 1, negative |-> 0, neutral |-> 0]])
      [] text = "json_partial" -> Return([sentiment |-> "positive"])
      [] OTHER -> Raise([type |-> "JSONDecodeError", msg |-> "Expecting value"])

\* lines 163-181: analyze_sentiment once _generate_response returned or raised;
\* a fallback that raises inside the try is caught at line 179 and run again
analyze_sentiment_finish(clean_texts, o) ==
    IF o.kind = "return" /\ HasField(o.value, "response")
    THEN LET parsed == JsonLoads(o.value.response) IN
         IF parsed.kind = "return" THEN parsed
         ELSE _fallback_sentiment_analysis(clean_texts)
    ELSE _fallback_sentiment_analysis(clean_texts)

(***************************************************************************)
(* Callers of the wrapper: what a public method returns once the wrapped   *)
(* call has returned or raised                                             *)
(***************************************************************************)
\* lines 483-484: the sample of texts, or the TypeError of slicing a value
\* that is not a string
ContentTexts(content) ==
    LET sample_content == Take(content, 10)
        text(i) == ItemGet(sample_content[i], "text",
                           ItemGet(sample_content[i], "description", Str(<< >>, FALSE)))
    IN IF \A i \in DOMAIN sample_content : IsStr(text(i))
       THEN Return([i \in DOMAIN sample_content |-> Clip(text(i), 200)])
       ELSE Raise([type |-> "TypeError", msg |-> "object is not subscriptable"])

\* lines 486-497
InsightPrompt(content_texts, platform) ==
    MkPrompt([insights |-> content_texts,
              platform |-> Or(platform, Str(<<"content">>, FALSE))], FALSE, "")

Unavailable == "LLM enhancement unavailable"

\* lines 519-525
FailedAnalysis(e) ==
    [error |-> e.msg,
     basic_sentiment |-> [sentiment |-> "neutral", confidence |-> 0],
     executive_summary |-> [text |-> "Analysis failed due to technical error"]]

\* lines 503-517: the bundle with the narrative and the summary
Enhanced(advanced_analysis, insights) ==
    LET with_insights == [llm_enhanced_insights |-> insights] @@ advanced_analysis IN
    [executive_summary |-> generate_summary_report(with_insights)] @@ with_insights

\* a slip: no try block around the generation, its exception reaches the
\* handler of lines 519-525
analyze_content_comprehensive_finish_unguarded(advanced_analysis, o) ==
    IF o.kind = "raise" THEN Return(FailedAnalysis(o.exc))
    ELSE IF HasField(o.value, "response")
    THEN Return(Enhanced(advanced_analysis, o.value.response))
    ELSE Return(Enhanced(advanced_analysis, Unavailable))

\* lines 500-517: after the generation o = Return(llm_response) or o = Raise(e)
analyze_content_comprehensive_finish(advanced_analysis, o) ==
    IF o.kind = "return" /\ HasField(o.value, "response")
    THEN Return(Enhanced(advanced_analysis, o.value.response))
    ELSE Return(Enhanced(advanced_analysis, Unavailable))

\* line 530
TestPrompt == Short("Say 'Hello' if you can hear me.")

\* lines 531-539: test_connection once _generate_response returned or raised
test_connection_finish(o) ==
    IF o.kind = "raise" THEN Return([success |-> FALSE, error |-> o.exc.msg])
    ELSE IF "error" \in DOMAIN o.value
    THEN Return([success |-> FALSE, error |-> o.value.error])
    ELSE Return([success |-> TRUE, message |-> "LLM connection successful"])

Finish(frame) ==
    CASE frame.caller = "func" -> [call |-> "func", outcome |-> frame.outcome]
      [] frame.caller = "_generate_response" ->
            [call |-> "_generate_response", outcome |-> frame.outcome]
      [] frame.caller = "analyze_sentiment" ->
            [call |-> "analyze_sentiment",
             outcome |-> analyze_sentiment_finish(frame.args.clean_texts, frame.outcome)]
      [] frame.caller = "analyze_content_comprehensive" ->
            [call |-> "analyze_content_comprehensive",
             outcome |-> analyze_content_comprehensive_finish(frame.args.advanced_analysis,
                                                              frame.outcome)]
      [] frame.caller = "test_connection" ->
            [call |-> "test_connection", outcome |-> test_connection_finish(frame.outcome)]

(***************************************************************************)
(* Spec: the service                                                       *)
(***************************************************************************)
SvcPrompts == { Short("a"),
                MkPrompt([direct |-> "A"], TRUE, ""),
                MkPrompt([direct |-> "A"], TRUE, "more"),
                MkPrompt([direct |-> "A"], TRUE, "notice") }

FuncOutcomes(n) == {Return([response |-> "f"]), Raise([type |-> "FuncError", n |-> n])}

Init ==
    /\ cache = EmptyDict
    /\ timestamps = EmptyDict
    /\ max_size = CacheMaxSize
    /\ ttl = CacheTtl
    /\ now = 0
    /\ setLog = << >>
    /\ lastOp = NoOp
    /\ thr = NoThreads
    /\ NoRepository
    /\ NoLimiter
    /\ NoService

CanCall == w.pc # "running" /\ ncalls < MaxCalls /\ now < MaxSpans * ttl

Enter(frame) ==
    /\ w' = frame
    /\ cur' = NoHistory
    /\ result' = IF frame.pc = "done" THEN Finish(frame) ELSE NoResult
    /\ ncalls' = ncalls + 1

\* time passes between two calls; while the wrapper runs the model lets
\* time pass in time.sleep only
TickSvc(dt) ==
    /\ w.pc # "running"
    /\ now < MaxSpans * ttl
    /\ now' = now + dt
    /\ UNCHANGED <<cacheVars, svcVars, outsideSvc>>

\* a function decorated with retry_on_failure(max_retries, delay) is called
CallFunc(max_retries, delay) ==
    /\ CanCall
    /\ Enter(WrapperEnter("func", max_retries, delay, "func", None))
    /\ UNCHANGED <<cacheVars, now, fetched, outsideSvc>>

\* LLMService._generate_response(prompt) is called
CallGenerate(prompt) ==
    /\ CanCall
    /\ Enter(WrapperEnter("_generate_response", RetryMax, RetryDelay,
                          "_generate_response", [prompt |-> prompt]))
    /\ UNCHANGED <<cacheVars, now, fetched, outsideSvc>>

\* what one pass of the wrapper's loop does to the wrapper and the history
Pass(o, posts) ==
    LET p == WrapperPass(w, o) IN
    /\ w' = p.frame
    /\ now' = now + p.sleep
    /\ cur' = [at |-> Append(cur.at, now),
               raised |-> IF o.kind = "raise" THEN Append(cur.raised, o.exc) ELSE cur.raised,
               sleeps |-> IF p.slept THEN Append(cur.sleeps, p.sleep) ELSE cur.sleeps,
               posts |-> cur.posts \o posts]
    /\ result' = IF p.frame.pc = "done" THEN Finish(p.frame) ELSE NoResult

\* one pass of the loop around the decorated function
InvokeFunc ==
    /\ w.pc = "running"
    /\ w.wrapped = "func"
    /\ \E o \in FuncOutcomes(Len(cur.at) + 1) : Pass(o, << >>)
    /\ UNCHANGED <<cacheVars, fetched, ncalls, outsideSvc>>

\* one pass of the loop around _generate_response
InvokeGenerate ==
    /\ w.pc = "running"
    /\ w.wrapped = "_generate_response"
    /\ \E remote \in RemoteAnswers :
         LET r == _generate_response(w.args.prompt, remote, cache, timestamps,
                                     now, Len(cur.at) + 1) IN
         /\ cache' = r.cache
         /\ timestamps' = r.timestamps
         /\ fetched' = IF r.fetched /\ HasField(r.outcome.value, "response")
                        THEN DictPut(fetched, w.args.prompt, now)
                        ELSE fetched
         /\ Pass(r.outcome, r.posts)
    /\ UNCHANGED <<max_size, ttl, ncalls, outsideSvc>>

Next ==
    \/ \E dt \in {ttl - 1, ttl} : TickSvc(dt)
    \/ \E p \in SvcPrompts : CallGenerate(p)
    \/ InvokeGenerate

Spec == Init /\ [][Next]_vars

(***************************************************************************)
(* Claims about _generate_response (Spec)                                  *)
(***************************************************************************)
\* the step completes a call of _generate_response that returns a response
GenerateSucceeds ==
    /\ w.pc = "running"
    /\ w.caller = "_generate_response"
    /\ w'.pc = "done"
    /\ w'.outcome.kind = "return"
    /\ HasField(w'.outcome.value, "response")

\* when the call in progress began
Began == IF cur.at = << >> THEN now ELSE cur.at[1]

\* C1: two successful calls of _generate_response with the same prompt, of any
\* length, within the ttl cause one transport call, the second call being
\* served from the cache; an identical call after the ttl has expired causes
\* another transport call.
C1_CacheIdempotence ==
    [][GenerateSucceeds =>
         LET p == w.args.prompt IN
         DictHas(fetched, p) =>
             IF Began - DictGet(fetched, p) < ttl
             THEN cur'.posts = << >>
             ELSE Len(cur'.posts) >= 1]_vars

\* C5: a non-200 answer makes _generate_response return a value with the key
\* 'error' without raising, and the invocation that got it made one transport
\* call and is not attempted again.
C5_Non200InBand ==
    /\ Len(cur.posts) <= Len(cur.at)
    /\ \A i \in DOMAIN cur.posts :
         (cur.posts[i].net = "ok" /\ cur.posts[i].status # 200) =>
             /\ i = Len(cur.posts)
             /\ w.pc = "done"
             /\ w.outcome.kind = "return"
             /\ HasField(w.outcome.value, "error")
             /\ result.outcome = w.outcome

\* the first attempt timed out, the second one was answered with a 500
C5_Witness ==
    /\ w.pc = "done"
    /\ w.caller = "_generate_response"
    /\ Len(cur.posts) = 2
    /\ cur.posts[1].net = "timeout"
    /\ cur.posts[2].status = 500
    /\ HasField(result.outcome.value, "error")

\* the entries the step writes: new keys, new values or new timestamps
Written ==
    {k \in DictKeys(cache') :
        \/ ~DictHas(cache, k)
        \/ DictGet(cache', k) # DictGet(cache, k)
        \/ DictGet(timestamps', k) # DictGet(timestamps, k)}

\* C26: an invocation of _generate_response writes a cache entry only after
\* its transport call returned a 200 with a parsed body; invocations that
\* raise or get a non-200 write none, so no cached value is an error answer.
C26_OnlySuccessIsCached ==
    [][/\ Written # {} =>
            /\ Len(cur'.posts) = Len(cur.posts) + 1
            /\ Last(cur'.posts).net = "ok"
            /\ Last(cur'.posts).status = 200
            /\ Last(cur'.posts).parses
       /\ \A i \in DOMAIN cache' : ~HasField(cache'[i][2], "error")]_vars

\* every attempt of a call raised, a time-out and then a refused connection,
\* and nothing is cached
C26_Witness ==
    /\ w.pc = "done"
    /\ w.caller = "_generate_response"
    /\ Len(cur.posts) = RetryMax
    /\ cur.posts[1].net = "timeout"
    /\ Last(cur.posts).net = "connection"
    /\ result.outcome.kind = "raise"
    /\ cache = EmptyDict
    /\ timestamps = EmptyDict

\* C11: no prompt in a request payload is longer than max_prompt_length; a
\* prompt within the ceiling is sent unchanged, a longer one is sent cut, with
\* the truncation notice appended.
C11_PromptCeiling ==
    \A i \in DOMAIN cur.posts :
        /\ PromptLen(cur.posts[i].prompt) <= max_prompt_length
        /\ IF PromptLen(w.args.prompt) <= max_prompt_length
           THEN cur.posts[i].prompt = w.args.prompt
           ELSE cur.posts[i].prompt = PromptPlusNotice(PromptPrefix(w.args.prompt))

(***************************************************************************)
(* SpecRetry: calls through retry_on_failure's wrapper, of a function       *)
(* decorated with any (max_retries, delay) and of _generate_response       *)
(***************************************************************************)
NextRetry ==
    \/ \E n \in 0..MaxRetries, d \in 1..MaxDelay : CallFunc(n, d)
    \/ \E p \in SvcPrompts : CallGenerate(p)
    \/ InvokeFunc
    \/ InvokeGenerate

SpecRetry == Init /\ [][NextRetry]_vars

(***************************************************************************)
(* Claims about retry_on_failure (SpecRetry)                               *)
(***************************************************************************)
Invoked == Len(cur.at)

\* every invocation of the wrapped function so far has raised
AllRaised == Len(cur.raised) = Invoked

\* C3: when the function wrapped by retry_on_failure(max_retries=N) raises on
\* every invocation it is invoked exactly N times and never again, and the
\* caller gets the exception of the N-th invocation; for _generate_response
\* that is N = 2 transport attempts.
C3_RetryBound ==
    w.pc # "idle" =>
        /\ Invoked <= w.max_retries
        /\ (AllRaised /\ w.pc = "running") => Invoked < w.max_retries
        /\ (AllRaised /\ w.pc = "done") =>
              /\ Invoked = w.max_retries
              /\ w.outcome.kind = "raise"
              /\ w.max_retries >= 1 => /\ w.outcome.exc = Last(cur.raised)
                                       /\ w.outcome.exc.n = w.max_retries
              /\ w.wrapped = "_generate_response" =>
                    /\ w.max_retries = 2
                    /\ Len(cur.posts) = 2

C3_Witness ==
    /\ w.pc = "done"
    /\ w.wrapped = "func"
    /\ w.max_retries = 3
    /\ AllRaised
    /\ Invoked = 3

Blank == Str(<< >>, TRUE)
Empty == Str(<< >>, FALSE)

SentimentInputs == { << >>,
                     <<Blank>>,
                     <<Str(<<"good">>, FALSE)>>,
                     <<Str(<<"bad", "rant">>, TRUE), Empty>> }

\* LLMService.analyze_sentiment(texts) is called, lines 133-165
CallAnalyzeSentiment(texts) ==
    /\ CanCall
    /\ IF texts = << >>
       THEN /\ w' = IdleFrame
            /\ cur' = NoHistory
            /\ result' = [call |-> "analyze_sentiment", outcome |-> Return(NoTextsResult)]
            /\ ncalls' = ncalls + 1
       ELSE LET clean_texts == CleanTexts(texts) IN
            Enter(WrapperEnter("_generate_response", RetryMax, RetryDelay, "analyze_sentiment",
                               [prompt |-> SentimentPrompt(clean_texts),
                                clean_texts |-> clean_texts]))
    /\ UNCHANGED <<cacheVars, now, fetched, outsideSvc>>

\* the requests for a comprehensive analysis: a batch and a platform label
Requests == { << << >>, None >>,
              << <<[text |-> Str(<<"good", "happy">>, FALSE), likes |-> Num(30)]>>,
                 Str(<<"twitter">>, FALSE) >>,
              << <<[description |-> Str(<<"bad", "problem", "rant">>, TRUE),
                    shares |-> Str(<<"many">>, FALSE)]>>, None >>,
              << <<[text |-> None, caption |-> Str(<<"good">>, FALSE)]>>, None >> }

\* LLMService.analyze_content_comprehensive(content, platform) is called,
\* lines 472-500
BeginComprehensive(advanced, content_texts, platform) ==
    LET at_once(outcome) ==
            /\ w' = IdleFrame
            /\ cur' = NoHistory
            /\ result' = [call |-> "analyze_content_comprehensive", outcome |-> outcome]
            /\ ncalls' = ncalls + 1
    IN
    IF advanced.kind = "raise" THEN at_once(Return(FailedAnalysis(advanced.exc)))
    ELSE IF content_texts.kind = "raise"
    THEN at_once(Return(Enhanced(advanced.value, Unavailable)))
    ELSE Enter(WrapperEnter("_generate_response", RetryMax, RetryDelay,
                            "analyze_content_comprehensive",
                            [prompt |-> InsightPrompt(content_texts.value, platform),
                             advanced_analysis |-> advanced.value]))

CallAnalyzeComprehensive(content, platform) ==
    /\ CanCall
    /\ BeginComprehensive(comprehensive_analysis(content, platform), ContentTexts(content),
                          platform)
    /\ UNCHANGED <<cacheVars, now, fetched, outsideSvc>>

NextAnalysis ==
    \/ \E dt \in {ttl - 1, ttl} : TickSvc(dt)
    \/ \E texts \in SentimentInputs : CallAnalyzeSentiment(texts)
    \/ \E request \in Requests : CallAnalyzeComprehensive(request[1], request[2])
    \/ InvokeGenerate

SpecAnalysis == Init /\ [][NextAnalysis]_vars

(***************************************************************************)
(* Claims about the analysis methods (SpecAnalysis)                        *)
(***************************************************************************)
\* the call that just ended asked the remote service and every attempt raised
EveryAttemptRaised ==
    /\ w.pc = "done"
    /\ w.outcome.kind = "raise"
    /\ \A i \in DOMAIN cur.posts : cur.posts[i].net # "ok"

SentimentFields == {"sentiment", "confidence", "themes", "counts"}

\* C4: for every non-empty list of texts, also one of only empty or blank
\* texts, if the transport call raises on every attempt then analyze_sentiment
\* returns a result with sentiment, confidence, themes and counts, and raises
\* nothing.
C4_FallbackGuarantee ==
    (w.pc = "done" /\ w.caller = "analyze_sentiment" /\ EveryAttemptRaised) =>
        /\ result.call = "analyze_sentiment"
        /\ result.outcome.kind = "return"
        /\ SentimentFields \subseteq DOMAIN result.outcome.value

\* C12: when the remote answer's text is valid JSON lacking one of sentiment,
\* confidence, themes and counts, analyze_sentiment returns what
\* _fallback_sentiment_analysis gives for the cleaned texts, not the
\* incomplete object; so it does when the text is not JSON and when the call
\* failed.
C12_MissingFieldFallsBack ==
    (w.pc = "done" /\ w.caller = "analyze_sentiment") =>
        /\ w.outcome.kind = "raise" =>
               result.outcome = _fallback_sentiment_analysis(w.args.clean_texts)
        /\ (w.outcome.kind = "return" /\ HasField(w.outcome.value, "response")) =>
               ((\/ JsonLoads(w.outcome.value.response).kind = "raise"
                 \/ ~(SentimentFields \subseteq
                          DOMAIN JsonLoads(w.outcome.value.response).value))
                => result.outcome = _fallback_sentiment_analysis(w.args.clean_texts))

\* C13: a 200 answer whose body is not JSON is not retried: the invocation
\* that got it made the last transport call of the call, nothing of it is in
\* the cache, and the analysis method that called returns its local fallback.
C13_UnparseableNotRetried ==
    \A i \in DOMAIN cur.posts :
        (cur.posts[i].net = "ok" /\ cur.posts[i].status = 200 /\ ~cur.posts[i].parses) =>
            /\ i = Len(cur.posts)
            /\ w.pc = "done"
            /\ ~DictHas(timestamps, _generate_key(cur.posts[i].prompt, model_name))
                   \/ DictGet(timestamps, _generate_key(cur.posts[i].prompt, model_name))
                          # cur.at[i]
            /\ w.caller = "analyze_sentiment" =>
                   result.outcome = _fallback_sentiment_analysis(w.args.clean_texts)

\* the generation of the call that just ended
GenerationRan == w.pc = "done" /\ w.caller = "analyze_content_comprehensive"

\* C6: for every list of content records analyze_content_comprehensive
\* returns a result with 'llm_enhanced_insights' and 'executive_summary'.  The
\* narrative is the response text when the generation gave a value with a
\* 'response' field; it is the placeholder 'LLM enhancement unavailable' when
\* the generation failed, by an exception after all retries or by an in-band
\* error; no failure of the generation is raised to the caller.
C6_BestEffortResult ==
    result.call = "analyze_content_comprehensive" =>
        /\ result.outcome.kind = "return"
        /\ {"llm_enhanced_insights", "executive_summary"} \subseteq DOMAIN result.outcome.value
        /\ (GenerationRan /\ w.outcome.kind = "return" /\ HasField(w.outcome.value, "response"))
               => result.outcome.value.llm_enhanced_insights = w.outcome.value.response
        /\ (GenerationRan /\ (w.outcome.kind = "raise" \/ HasField(w.outcome.value, "error")))
               => result.outcome.value.llm_enhanced_insights = "LLM enhancement unavailable"

\* every attempt of the generation raised and the placeholder was returned
C6_Witness ==
    /\ result.call = "analyze_content_comprehensive"
    /\ GenerationRan
    /\ w.outcome.kind = "raise"
    /\ Len(cur.posts) = RetryMax
    /\ result.outcome.kind = "return"
    /\ result.outcome.value.llm_enhanced_insights = "LLM enhancement unavailable"
    /\ "executive_summary" \in DOMAIN result.outcome.value

(***************************************************************************)
(* SpecHealth: the health check of the service, called again and again     *)
(***************************************************************************)
\* LLMService.test_connection() is called, lines 527-531
CallTestConnection ==
    /\ CanCall
    /\ Enter(WrapperEnter("_generate_response", RetryMax, RetryDelay, "test_connection",
                          [prompt |-> TestPrompt]))
    /\ UNCHANGED <<cacheVars, now, fetched, outsideSvc>>

NextHealth ==
    \/ \E dt \in {ttl - 1, ttl} : TickSvc(dt)
    \/ CallTestConnection
    \/ InvokeGenerate

SpecHealth == Init /\ [][NextHealth]_vars

\* C14: every call of test_connection sends its prompt to the remote service;
\* it reports success only if the remote service answered that call with a
\* 200, and reports success = false with an error detail whenever the remote
\* service is unreachable or answers non-200 during the call, whatever
\* earlier calls did.
C14_HealthCheckAsksRemote ==
    (w.pc = "done" /\ w.caller = "test_connection") =>
        /\ result.outcome.kind = "return"
        /\ cur.posts # << >>
        /\ result.outcome.value.success =>
               (Last(cur.posts).net = "ok" /\ Last(cur.posts).status = 200)
        /\ (Last(cur.posts).net # "ok" \/ Last(cur.posts).status # 200) =>
               (~result.outcome.value.success /\ "error" \in DOMAIN result.outcome.value)

(***************************************************************************)
(* SpecTruncate: LLMService._truncate_data applied to lists of records     *)
(***************************************************************************)
MaxDataLen == 90    \* records in a list handed to _truncate_data
MaxSample == 30     \* largest max_items

\* Python's normalisation of a slice bound i for a list of n items
PyBound(i, n) ==
    IF i < 0 THEN (IF i + n < 0 THEN 0 ELSE i + n)
    ELSE IF i > n THEN n ELSE i

\* lst[start:stop]
PySlice(lst, start, stop) ==
    LET lo == PyBound(start, Len(lst))
        hi == PyBound(stop, Len(lst))
    IN IF lo < hi THEN SubSeq(lst, lo + 1, hi) ELSE << >>

\* a slip: the middle chunk starts a third of the sample before the middle
_truncate_data_overlapping(data, max_items) ==
    IF Len(data) <= max_items THEN data
    ELSE LET sample_size == max_items
         IN IF sample_size >= 10
            THEN LET first_chunk == PySlice(data, 0, sample_size \div 3)
                     middle_start == (Len(data) \div 2) - (sample_size \div 3)
                     middle_chunk == PySlice(data, middle_start,
                                             middle_start + (sample_size \div 3))
                     last_chunk == PySlice(data, (0 - sample_size) \div 3, Len(data))
                 IN first_chunk \o middle_chunk \o last_chunk
            ELSE PySlice(data, 0, sample_size)

\* a slip: the head of the list only
_truncate_data_head(data, max_items) ==
    IF Len(data) <= max_items THEN data
    ELSE PySlice(data, 0, max_items)

\* lines 100-114
_truncate_data(data, max_items) ==
    IF Len(data) <= max_items THEN data
    ELSE LET sample_size == max_items
         IN IF sample_size >= 10
            THEN LET first_chunk == PySlice(data, 0, sample_size \div 3)
                     middle_start == (Len(data) \div 2) - (sample_size \div 6)
                     middle_chunk == PySlice(data, middle_start,
                                             middle_start + (sample_size \div 3))
                     last_chunk == PySlice(data, (0 - sample_size) \div 3, Len(data))
                 IN first_chunk \o middle_chunk \o last_chunk
            ELSE PySlice(data, 0, sample_size)

\* the state in which nothing has run yet and the input r waits
Waiting(r) ==
    /\ cache = EmptyDict
    /\ timestamps = EmptyDict
    /\ max_size = CacheMaxSize
    /\ ttl = CacheTtl
    /\ now = 0
    /\ setLog = << >>
    /\ lastOp = NoOp
    /\ thr = NoThreads
    /\ NoRepository
    /\ NoLimiter
    /\ w = IdleFrame
    /\ cur = NoHistory
    /\ fetched = EmptyDict
    /\ ncalls = 0
    /\ result = r

\* a list of records, each named by its index in the list, and a cap
InitTruncate ==
    \E n \in 0..MaxDataLen, max_items \in 1..MaxSample :
        Waiting([call |-> "pending", data |-> [i \in 1..n |-> i - 1],
                 max_items |-> max_items])

\* _truncate_data(data, max_items) is called, lines 100-114
CallTruncateData ==
    /\ result.call = "pending"
    /\ result' = [call |-> "_truncate_data", data |-> result.data,
                  max_items |-> result.max_items,
                  outcome |-> _truncate_data(result.data, result.max_items)]
    /\ ncalls' = ncalls + 1
    /\ UNCHANGED <<cacheVars, now, fetched, w, cur, outsideSvc>>

NextTruncate == CallTruncateData

SpecTruncate == InitTruncate /\ [][NextTruncate]_vars

\* the sample of a list that is longer than a cap of at least ten
Sampled == /\ result.call = "_truncate_data"
           /\ result.max_items >= 10
           /\ Len(result.data) > result.max_items

\* C15: for a list longer than max_items, max_items >= 10, the sample holds
\* the first record, the last record and a record whose index lies strictly
\* between one third and two thirds of the length of the list.
C15_SampleSpansInput ==
    Sampled =>
        LET n == Len(result.data)
            kept == {result.outcome[k] : k \in DOMAIN result.outcome}
        IN /\ 0 \in kept
           /\ (n - 1) \in kept
           /\ \E i \in kept : 3 * i > n /\ 3 * i < 2 * n

\* 90 records under the review cap 30: a record between 30 and 60 is kept
C15_Witness ==
    /\ Sampled
    /\ Len(result.data) = 90
    /\ result.max_items = 30
    /\ \E k \in DOMAIN result.outcome : result.outcome[k] > 30 /\ result.outcome[k] < 60
    /\ Len(result.outcome) = 30

\* C30: a list of at most max_items records is returned unchanged; of a
\* longer list at most max_items records are returned, no position of the
\* input twice, in the order of the input.
C30_SampleIsOrderedSubsequence ==
    (result.call = "_truncate_data") =>
        LET out == result.outcome IN
        IF Len(result.data) <= result.max_items
        THEN out = result.data
        ELSE /\ Len(out) <= result.max_items
             /\ \A i, j \in DOMAIN out : i < j => out[i] < out[j]
             /\ \A i \in DOMAIN out : out[i] \in 0..(Len(result.data) - 1)

\* one record more than the cap 10: the three chunks touch but do not overlap
C30_Witness ==
    /\ result.call = "_truncate_data"
    /\ result.max_items = 10
    /\ Len(result.data) = 11
    /\ result.outcome = <<0, 1, 2, 4, 5, 6, 7, 8, 9, 10>>

(***************************************************************************)
(* SpecRecommend: AdvancedContentAnalyzer._generate_recommendations        *)
(* applied to the signals the analyses can produce                         *)
(***************************************************************************)
\* the labels of line 138 of the analyzer
SentimentLabels == {"positive", "negative", "neutral"}

\* the primary intents of lines 245-250
PrimaryIntents == SeqToSet(Intents) \cup {"unknown"}

\* what _analyze_engagement_patterns returns, as far as lines 426-428 read it
EngagementSignals ==
    {[engagement_data |-> FALSE]}
        \cup {[engagement_data |-> TRUE, engagement_rate |-> r] : r \in {"high", "medium", "low"}}

InitRecommend ==
    \E s \in SentimentLabels, p \in PrimaryIntents, e \in EngagementSignals :
        Waiting([call |-> "pending",
                 analysis_result |-> [basic_sentiment |-> [sentiment |-> s],
                                      intent_analysis |-> [primary_intent |-> p],
                                      engagement_analysis |-> e]])

\* _generate_recommendations(analysis_result) is called, lines 391-437
CallGenerateRecommendations ==
    /\ result.call = "pending"
    /\ result' = [call |-> "_generate_recommendations",
                  analysis_result |-> result.analysis_result,
                  outcome |-> _generate_recommendations(result.analysis_result)]
    /\ ncalls' = ncalls + 1
    /\ UNCHANGED <<cacheVars, now, fetched, w, cur, outsideSvc>>

NextRecommend == CallGenerateRecommendations

SpecRecommend == InitRecommend /\ [][NextRecommend]_vars

\* the places of the entries of a category in a list of recommendations
Places(recs, category) == {i \in DOMAIN recs : recs[i].category = category}

\* C16: the list holds a customer_service entry iff the sentiment label is
\* negative and a product_development entry iff the primary intent is
\* feature_request; when both hold both entries appear, customer_service
\* first; when no rule of the table fires the list is empty.
C16_RecommendationRules ==
    (result.call = "_generate_recommendations") =>
        LET signals == result.analysis_result
            recs == result.outcome
            negative == signals.basic_sentiment.sentiment = "negative"
            primary_intent == signals.intent_analysis.primary_intent
            low == /\ signals.engagement_analysis.engagement_data
                   /\ signals.engagement_analysis.engagement_rate = "low"
        IN /\ (Places(recs, "customer_service") # {}) <=> negative
           /\ (Places(recs, "product_development") # {}) <=> (primary_intent = "feature_request")
           /\ (negative /\ primary_intent = "feature_request") =>
                  /\ Places(recs, "customer_service") = {1}
                  /\ \A j \in Places(recs, "product_development") : j > 1
           /\ (~negative /\ primary_intent \notin {"complaint", "feature_request"} /\ ~low) =>
                  recs = << >>

\* negative sentiment together with feature requests: both entries, in order
C16_Witness ==
    /\ result.call = "_generate_recommendations"
    /\ result.analysis_result.basic_sentiment.sentiment = "negative"
    /\ result.analysis_result.intent_analysis.primary_intent = "feature_request"
    /\ Len(result.outcome) >= 2
    /\ result.outcome[1].category = "customer_service"
    /\ result.outcome[2].category = "product_development"

(***************************************************************************)
(* SpecSentiment: _analyze_basic_sentiment and _assess_content_quality     *)
(* applied to batches of texts                                             *)
(***************************************************************************)
MaxWords == 3       \* words in a text
MaxTexts == 2       \* texts in a batch

\* the texts of at most MaxWords different words of a vocabulary, in its order
Phrases(vocabulary) ==
    {Str(SelectSeq(vocabulary, LAMBDA word : word \in chosen), FALSE) :
        chosen \in {c \in SUBSET SeqToSet(vocabulary) : c # {} /\ Cardinality(c) <= MaxWords}}

TextBatches(vocabulary) == UNION {[1..n -> Phrases(vocabulary)] : n \in 0..MaxTexts}

\* two words of the positive lexicon, one of the negative lexicon, two runs
\* of text without a word of either
SentimentWords == <<"good", "great", "bad", "story", "rant">>

InitSentiment ==
    \E texts \in TextBatches(SentimentWords) : Waiting([call |-> "pending", texts |-> texts])

\* _analyze_basic_sentiment(texts) is called, lines 101-146
CallAnalyzeBasicSentiment ==
    /\ result.call = "pending"
    /\ result' = [call |-> "_analyze_basic_sentiment", texts |-> result.texts,
                  outcome |-> _analyze_basic_sentiment(result.texts)]
    /\ ncalls' = ncalls + 1
    /\ UNCHANGED <<cacheVars, now, fetched, w, cur, outsideSvc>>

\* _assess_content_quality(texts) is called, lines 350-373
CallAssessContentQuality ==
    /\ result.call = "pending"
    /\ result' = [call |-> "_assess_content_quality", texts |-> result.texts,
                  outcome |-> _assess_content_quality(result.texts)]
    /\ ncalls' = ncalls + 1
    /\ UNCHANGED <<cacheVars, now, fetched, w, cur, outsideSvc>>

NextSentiment ==
    \/ CallAnalyzeBasicSentiment
    \/ CallAssessContentQuality

SpecSentiment == InitSentiment /\ [][NextSentiment]_vars

\* the hits of a text in the two lexicons
Pos(text) == Cardinality({k \in positive_words : Mentions(text, k)})
Neg(text) == Cardinality({k \in negative_words : Mentions(text, k)})

\* the sum of (pos - neg) / (pos + neg) over the texts, 0 where pos + neg = 0
RECURSIVE ScoreSum(_)
ScoreSum(texts) ==
    IF texts = << >> THEN Frac(0, 1)
    ELSE FAdd(IF Pos(Head(texts)) + Neg(Head(texts)) = 0 THEN Frac(0, 1)
              ELSE Frac(Pos(Head(texts)) - Neg(Head(texts)),
                        Pos(Head(texts)) + Neg(Head(texts))),
              ScoreSum(Tail(texts)))

SentimentDone == result.call = "_analyze_basic_sentiment" /\ result.texts # << >>

\* C17: for a non-empty batch the aggregate is the mean of the per-text scores
\* (pos - neg) / (pos + neg), 0 where pos + neg = 0; the label is positive iff
\* the aggregate is > 0.1, negative iff it is < -0.1, else neutral; one
\* positive hit and no negative hit in every text gives 1.0 and positive, the
\* symmetric batch -1.0 and negative, no hits at all 0.0 and neutral.
C17_SentimentAggregate ==
    SentimentDone =>
        LET texts == result.texts
            total == ScoreSum(texts)
            n == Len(texts)
            r == result.outcome
        IN /\ r.score = Round(Frac(total[1], total[2] * n), 100)
           /\ (r.sentiment = "positive") <=> (10 * total[1] > total[2] * n)
           /\ (r.sentiment = "negative") <=> (10 * total[1] < -(total[2] * n))
           /\ r.sentiment \in {"positive", "negative", "neutral"}
           /\ (\A i \in DOMAIN texts : Pos(texts[i]) = 1 /\ Neg(texts[i]) = 0) =>
                  (r.score = 100 /\ r.sentiment = "positive")
           /\ (\A i \in DOMAIN texts : Pos(texts[i]) = 0 /\ Neg(texts[i]) = 1) =>
                  (r.score = -100 /\ r.sentiment = "negative")
           /\ (\A i \in DOMAIN texts : Pos(texts[i]) = 0 /\ Neg(texts[i]) = 0) =>
                  (r.score = 0 /\ r.sentiment = "neutral")

\* two texts with one positive hit each, next to a run of text: 1.0, positive
C17_Witness ==
    /\ SentimentDone
    /\ Len(result.texts) = 2
    /\ \A i \in DOMAIN result.texts : Pos(result.texts[i]) = 1 /\ Neg(result.texts[i]) = 0
    /\ \E i \in DOMAIN result.texts : Len(result.texts[i].words) > 1
    /\ result.outcome.score = 100
    /\ result.outcome.sentiment = "positive"

\* C18: the confidence of _analyze_basic_sentiment lies in [0, 1] for every
\* batch, batches that mix texts of score +1 and of score -1 included.
C18_ConfidenceInUnitInterval ==
    (result.call = "_analyze_basic_sentiment") =>
        (result.outcome.confidence >= 0 /\ result.outcome.confidence <= 100)

\* C20: the quality_score lies in [0, 1]; it is 0 for the empty batch and
\* otherwise the base 0.7 (readability good) or 0.4 plus a bonus of at most 0.3.
C20_QualityScoreInUnitInterval ==
    (result.call = "_assess_content_quality") =>
        LET r == result.outcome
        IN /\ r.quality_score >= 0 /\ r.quality_score <= 100
           /\ (result.texts = << >>) => (r.quality_score = 0)
           /\ (result.texts # << >>) =>
                  LET base == IF r.quality_indicators.readability = "good" THEN 70 ELSE 40
                  IN r.quality_score >= base /\ r.quality_score <= base + 30

\* a readable batch rich enough for the whole bonus: the score is 1.0
C20_Witness ==
    /\ result.call = "_assess_content_quality"
    /\ result.texts # << >>
    /\ result.outcome.quality_indicators.readability = "good"
    /\ FLess(Frac(3, 100), result.outcome.quality_indicators.content_richness)
    /\ result.outcome.quality_score = 100

(***************************************************************************)
(* SpecEmotions: _analyze_emotions applied to batches of texts             *)
(***************************************************************************)
\* one keyword of each of the six emotions
EmotionWords == <<"happy", "angry", "scared", "wow", "sad", "honest">>

InitEmotions ==
    \E texts \in TextBatches(EmotionWords) : Waiting([call |-> "pending", texts |-> texts])

\* _analyze_emotions(texts) is called, lines 148-179
CallAnalyzeEmotions ==
    /\ result.call = "pending"
    /\ result' = [call |-> "_analyze_emotions", texts |-> result.texts,
                  outcome |-> _analyze_emotions(result.texts)]
    /\ ncalls' = ncalls + 1
    /\ UNCHANGED <<cacheVars, now, fetched, w, cur, outsideSvc>>

NextEmotions == CallAnalyzeEmotions

SpecEmotions == InitEmotions /\ [][NextEmotions]_vars

\* C19: the weights of the emotion_distribution sum to at most 1, also when
\* the hits are spread evenly over the six emotions.
C19_DistributionSumsToAtMostOne ==
    (result.call = "_analyze_emotions" /\ result.texts # << >>) =>
        SumOver(result.outcome.emotion_distribution, Emotions) <= 100

(***************************************************************************)
(* SpecAnalyzer: AdvancedContentAnalyzer.comprehensive_analysis applied to *)
(* batches of records                                                      *)
(***************************************************************************)
MaxItems == 2       \* records in a batch

NoField == << >>

TextFields == { [text |-> None, caption |-> Blank],
                [text |-> Str(<<"good", "happy">>, FALSE)],
                [text |-> Num(5), description |-> Str(<<"good">>, FALSE)],
                [description |-> Str(<<"bad", "problem", "rant">>, TRUE)] }

EngagementFields == { NoField,
                      [likes |-> Num(30)],
                      [like_count |-> Num(150), likes |-> Str(<<"many">>, FALSE)],
                      [likes |-> Num(3), shares |-> Str(<<"many">>, FALSE)] }

DateFields == { NoField,
                [date |-> Num(0), created_at |-> Str(<<"2024-01-01">>, FALSE)] }

Records == {t @@ e @@ d : t \in TextFields, e \in EngagementFields, d \in DateFields}

Batches == UNION {[1..n -> Records] : n \in 0..MaxItems}

Platforms == {None, Str(<<"twitter">>, FALSE)}

\* a batch and a platform label wait for the analyzer
InitAnalyzer ==
    /\ cache = EmptyDict
    /\ timestamps = EmptyDict
    /\ max_size = CacheMaxSize
    /\ ttl = CacheTtl
    /\ now = 0
    /\ setLog = << >>
    /\ lastOp = NoOp
    /\ thr = NoThreads
    /\ NoRepository
    /\ NoLimiter
    /\ w = IdleFrame
    /\ cur = NoHistory
    /\ fetched = EmptyDict
    /\ ncalls = 0
    /\ \E content_list \in Batches, platform \in Platforms :
         result = [call |-> "pending", content_list |-> content_list, platform |-> platform]

\* comprehensive_analysis(content_list, platform) is called, lines 47-82
CallComprehensiveAnalysis ==
    /\ result.call = "pending"
    /\ result' = [call |-> "comprehensive_analysis",
                  content_list |-> result.content_list,
                  platform |-> result.platform,
                  outcome |-> comprehensive_analysis(result.content_list, result.platform)]
    /\ ncalls' = ncalls + 1
    /\ UNCHANGED <<cacheVars, now, fetched, w, cur, outsideSvc>>

NextAnalyzer == CallComprehensiveAnalysis

SpecAnalyzer == InitAnalyzer /\ [][NextAnalyzer]_vars

(***************************************************************************)
(* Claims about the analyzer (SpecAnalyzer)                                *)
(***************************************************************************)
TextKeys == <<"text", "description", "caption", "content", "review_text", "comment">>

\* the text a record yields: the first of its text fields that is truthy
RECURSIVE FirstTruthy(_, _)
FirstTruthy(item, keys) ==
    IF keys = << >> THEN Empty
    ELSE IF Head(keys) \in DOMAIN item /\ Bool(item[Head(keys)]) THEN item[Head(keys)]
    ELSE FirstTruthy(item, Tail(keys))

YieldsText(item) ==
    LET text == FirstTruthy(item, TextKeys) IN IsStr(text) /\ text.words # << >>

\* some engagement value of the batch is not a number
NonNumericEngagement(content_list) ==
    \E i \in DOMAIN content_list :
        \E k \in {"likes", "comments", "shares"} : ~IsNumber(EngagementOf(content_list[i])[k])

AnalysisKeys == {"basic_sentiment", "emotion_analysis", "topic_analysis", "aspect_sentiment",
                 "intent_analysis", "business_insights", "temporal_analysis",
                 "engagement_analysis", "content_quality", "competitive_intelligence",
                 "actionable_recommendations"}

IsSentinel(v) ==
    /\ v = _empty_analysis_result
    /\ v.basic_sentiment.sentiment = "neutral"
    /\ v.basic_sentiment.confidence = 0
    /\ v.actionable_recommendations = << >>
    /\ ~v.temporal_analysis.temporal_data
    /\ ~v.engagement_analysis.engagement_data

\* C7: comprehensive_analysis raises nothing for any sequence of records.  It
\* returns exactly the empty sentinel when no record yields a non-empty text
\* or a sub-analysis throws (a non-numeric engagement value), and the bundle
\* of the eleven analyses otherwise.
C7_NeverRaises ==
    result.call = "comprehensive_analysis" =>
        /\ result.outcome.kind = "return"
        /\ IF \/ \A i \in DOMAIN result.content_list : ~YieldsText(result.content_list[i])
              \/ NonNumericEngagement(result.content_list)
           THEN IsSentinel(result.outcome.value)
           ELSE /\ DOMAIN result.outcome.value = AnalysisKeys
                /\ result.outcome.value.engagement_analysis.engagement_data
                /\ HasField(result.outcome.value.basic_sentiment, "distribution")

\* a batch with a text and a non-numeric engagement value gave the sentinel
C7_Witness ==
    /\ result.call = "comprehensive_analysis"
    /\ \E i \in DOMAIN result.content_list : YieldsText(result.content_list[i])
    /\ NonNumericEngagement(result.content_list)
    /\ result.outcome.kind = "return"
    /\ IsSentinel(result.outcome.value)


(***************************************************************************)
(* The analysis domain: AnalysisEntity, the analysis repository and        *)
(* AnalysisDomainService.  An analysis is a record; the repository table   *)
(* `analyses` is the sequence of stored rows in creation order, and the    *)
(* analysis_id of a row is its position (uuid4 values are fresh, so no two *)
(* rows share one).  Optional values are None or a record.                 *)
(***************************************************************************)
MaxAnalyses == 1   \* no analysis is created once this many are stored
MaxFails == 4      \* fail_analysis is not called on an analysis that failed this often
MaxDay == 1        \* the clock of the analysis service stops advancing here
MaxContent == 1    \* content is not added to an analysis holding this many items

_max_retries == 3
_max_content_items == 10000
MaxPending == 10
ListLimit == 100
MaxSummary == 5000

AnalysisStatus == {"pending", "in_progress", "completed", "failed", "cancelled"}
Platform == {"amazon", "twitter"}
UserIds == {1, 2}

\* a text of `len` characters that is not blank
Essay(len) == [t |-> "str", words |-> <<"summary">>, pad |-> FALSE, len |-> len]

\* len(s)
PyLen(s) == IF "len" \in DOMAIN s THEN s.len ELSE StrLen(s)

\* AnalysisResult: the confidence score is counted in tenths
AnalysisResult(confidence, summary) ==
    [confidence_score |-> confidence, executive_summary |-> summary]

\* AnalysisEntity(...) with the defaults of the dataclass; __post_init__
\* refuses an empty or blank target
AnalysisEntity(analysis_id, platform, target_identifier, status, user_id, t) ==
    IF ~Bool(target_identifier) \/ ~Bool(Strip(target_identifier))
    THEN Raise("ValueError")
    ELSE Return([analysis_id |-> analysis_id,
                 platform |-> platform,
                 target_identifier |-> target_identifier,
                 status |-> status,
                 user_id |-> user_id,
                 content_items |-> << >>,
                 results |-> None,
                 updated_at |-> Num(t),
                 started_at |-> None,
                 completed_at |-> None,
                 error_message |-> None,
                 retry_count |-> 0])

start_processing(a, t) ==
    [a EXCEPT !.status = "in_progress",
              !.started_at = Num(t),
              !.updated_at = Num(t)]

complete_successfully(a, results, t) ==
    [a EXCEPT !.status = "completed",
              !.results = results,
              !.completed_at = Num(t),
              !.updated_at = Num(t),
              !.error_message = None]

\* a slip: the failure forgets to count itself
fail_with_error_uncounted(a, error_message, t) ==
    [a EXCEPT !.status = "failed",
              !.error_message = error_message,
              !.completed_at = Num(t),
              !.updated_at = Num(t)]

fail_with_error(a, error_message, t) ==
    [a EXCEPT !.status = "failed",
              !.error_message = error_message,
              !.completed_at = Num(t),
              !.updated_at = Num(t),
              !.retry_count = @ + 1]

cancel(a, t) ==
    [a EXCEPT !.status = "cancelled",
              !.completed_at = Num(t),
              !.updated_at = Num(t)]

can_retry(a, max_retries) ==
    a.status = "failed" /\ a.retry_count < max_retries

\* a slip: only the successful and the cancelled analyses count as completed
is_completed_without_failed(a) == a.status \in {"completed", "cancelled"}

is_completed(a) == a.status \in {"completed", "failed", "cancelled"}

\* content_item is the platform of the item
add_content_item(a, content_item, t) ==
    IF content_item # a.platform
    THEN Raise("ValueError")
    ELSE Return([a EXCEPT !.content_items = Append(@, content_item),
                          !.updated_at = Num(t)])

\* the repository: create stores the row, the getters return copies,
\* update writes the fields of the entity onto the stored row
create(table, a) == Append(table, a)

get_by_analysis_id(table, analysis_id) ==
    IF analysis_id \in DOMAIN table THEN table[analysis_id] ELSE None

\* an optional filter that is given
Only(v) == [t |-> "only", v |-> v]

\* the rows of a user that pass the filters, newest first
RECURSIVE NewestFirst(_, _, _, _)
NewestFirst(table, user_id, platform, status) ==
    IF table = << >> THEN << >>
    ELSE LET a == Last(table)
             rest == NewestFirst(SubSeq(table, 1, Len(table) - 1),
                                 user_id, platform, status)
         IN IF /\ a.user_id = user_id
               /\ (platform = None \/ a.platform = platform.v)
               /\ (status = None \/ a.status = status.v)
            THEN <<a>> \o rest
            ELSE rest

get_by_user(table, user_id, platform, status, limit) ==
    Take(NewestFirst(table, user_id, platform, status), limit)

update(table, a) ==
    [table EXCEPT ![a.analysis_id] =
        [@ EXCEPT !.status = a.status,
                  !.started_at = a.started_at,
                  !.completed_at = a.completed_at,
                  !.error_message = a.error_message,
                  !.retry_count = a.retry_count,
                  !.updated_at = a.updated_at,
                  !.results = IF a.results # None THEN a.results ELSE @,
                  !.content_items = IF a.content_items # << >>
                                    THEN a.content_items ELSE @]]

\* what a handler leaves behind: the table and what the caller gets
Handled(table, outcome) == [analyses |-> table, outcome |-> outcome]

Updated(table, a) ==
    LET stored == update(table, a)
    IN Handled(stored, Return(stored[a.analysis_id]))

\* TRUE when the creation is refused
_validate_analysis_creation(table, user_id, platform, target_identifier) ==
    LET pending_analyses == get_by_user(table, user_id, None, Only("pending"), ListLimit)
        existing_analyses == get_by_user(table, user_id, Only(platform), None, ListLimit)
    IN \/ Len(pending_analyses) >= MaxPending
       \/ \E i \in DOMAIN existing_analyses :
              /\ existing_analyses[i].target_identifier = target_identifier
              /\ existing_analyses[i].status \in {"pending", "in_progress"}

\* TRUE when the results are refused
_validate_analysis_results(results) ==
    \/ results = None
    \/ ~(0 <= results.confidence_score /\ results.confidence_score <= 10)
    \/ ~Bool(results.executive_summary)
    \/ ~Bool(Strip(results.executive_summary))
    \/ PyLen(results.executive_summary) > MaxSummary

create_analysis(table, platform, target_identifier, user_id, t) ==
    IF _validate_analysis_creation(table, user_id, platform, target_identifier)
    THEN Handled(table, Raise("ValueError"))
    ELSE LET made == AnalysisEntity(Len(table) + 1, platform, target_identifier,
                                    "pending", user_id, t)
         IN IF made.kind = "raise" THEN Handled(table, made)
            ELSE LET stored == create(table, made.value)
                 IN Handled(stored, Return(Last(stored)))

\* a slip: an analysis is started whatever its status
start_analysis_processing_unguarded(table, analysis_id, t) ==
    LET analysis == get_by_analysis_id(table, analysis_id)
    IN IF analysis = None THEN Handled(table, Raise("ValueError"))
       ELSE Updated(table, start_processing(analysis, t))

start_analysis_processing(table, analysis_id, t) ==
    LET analysis == get_by_analysis_id(table, analysis_id)
    IN IF analysis = None THEN Handled(table, Raise("ValueError"))
       ELSE IF analysis.status # "pending" THEN Handled(table, Raise("ValueError"))
       ELSE Updated(table, start_processing(analysis, t))

complete_analysis(table, analysis_id, results, t) ==
    LET analysis == get_by_analysis_id(table, analysis_id)
    IN IF analysis = None THEN Handled(table, Raise("ValueError"))
       ELSE IF analysis.status # "in_progress" THEN Handled(table, Raise("ValueError"))
       ELSE IF _validate_analysis_results(results) THEN Handled(table, Raise("ValueError"))
       ELSE Updated(table, complete_successfully(analysis, results, t))

fail_analysis(table, analysis_id, error_message, t) ==
    LET analysis == get_by_analysis_id(table, analysis_id)
    IN IF analysis = None THEN Handled(table, Raise("ValueError"))
       ELSE Updated(table, fail_with_error(analysis, error_message, t))

retry_failed_analysis(table, analysis_id, t) ==
    LET analysis == get_by_analysis_id(table, analysis_id)
    IN IF analysis = None THEN Handled(table, Raise("ValueError"))
       ELSE IF ~can_retry(analysis, _max_retries) THEN Handled(table, Raise("ValueError"))
       ELSE Updated(table, [analysis EXCEPT !.status = "pending",
                                            !.error_message = None,
                                            !.started_at = None,
                                            !.completed_at = None,
                                            !.updated_at = Num(t)])

cancel_analysis(table, analysis_id, user_id, t) ==
    LET analysis == get_by_analysis_id(table, analysis_id)
    IN IF analysis = None THEN Handled(table, Raise("ValueError"))
       ELSE IF analysis.user_id # user_id THEN Handled(table, Raise("ValueError"))
       ELSE IF is_completed(analysis) THEN Handled(table, Raise("ValueError"))
       ELSE Updated(table, cancel(analysis, t))

\* the entity after the items were added one by one, or the first refusal
RECURSIVE AddAll(_, _, _)
AddAll(a, content_items, t) ==
    IF content_items = << >> THEN Return(a)
    ELSE LET added == add_content_item(a, Head(content_items), t)
         IN IF added.kind = "raise" THEN added
            ELSE AddAll(added.value, Tail(content_items), t)

add_content_to_analysis(table, analysis_id, content_items, t) ==
    LET analysis == get_by_analysis_id(table, analysis_id)
    IN IF analysis = None THEN Handled(table, Raise("ValueError"))
       ELSE IF analysis.status \notin {"pending", "in_progress"}
            THEN Handled(table, Raise("ValueError"))
       ELSE IF Len(analysis.content_items) + Len(content_items) > _max_content_items
            THEN Handled(table, Raise("ValueError"))
       ELSE LET added == AddAll(analysis, content_items, t)
            IN IF added.kind = "raise" THEN Handled(table, added)
               ELSE Updated(table, added.value)


(***************************************************************************)
(* The analysis service at work: callers of any user call its operations   *)
(* one at a time on a repository that starts empty, while the clock        *)
(* advances.  `result` holds the last call, its arguments and what it      *)
(* returned or raised.                                                     *)
(***************************************************************************)
Targets == {Str(<<"B00X">>, FALSE), Str(<< >>, TRUE)}
AnalysisIds == 1..(MaxAnalyses + 1)
ResultInputs ==
    {None,
     AnalysisResult(8, Essay(120)),
     AnalysisResult(0, Essay(MaxSummary)),
     AnalysisResult(11, Essay(120)),
     AnalysisResult(-1, Essay(120)),
     AnalysisResult(5, Str(<< >>, FALSE)),
     AnalysisResult(5, Str(<< >>, TRUE)),
     AnalysisResult(10, Essay(MaxSummary + 1))}

InitDomain == Waiting(NoResult)

\* the handler has run: the table it leaves and the record of the call
Answer(call, args, handled) ==
    /\ analyses' = handled.analyses
    /\ result' = [call |-> call, args |-> args, outcome |-> handled.outcome]
    /\ UNCHANGED <<now, outsideDomain>>

TickDomain ==
    /\ now < MaxDay
    /\ now' = now + 1
    /\ UNCHANGED <<analyses, result, outsideDomain>>

CallCreateAnalysis ==
    /\ Len(analyses) < MaxAnalyses
    /\ \E platform \in Platform, target \in Targets, user_id \in UserIds :
          Answer("create_analysis", <<platform, target, user_id>>,
                 create_analysis(analyses, platform, target, user_id, now))

CallStartAnalysisProcessing ==
    \E id \in AnalysisIds :
        Answer("start_analysis_processing", <<id>>,
               start_analysis_processing(analyses, id, now))

CallCompleteAnalysis ==
    \E id \in AnalysisIds, results \in ResultInputs :
        Answer("complete_analysis", <<id, results>>,
               complete_analysis(analyses, id, results, now))

CallFailAnalysis ==
    \E id \in AnalysisIds :
        /\ id \in DOMAIN analyses => analyses[id].retry_count < MaxFails
        /\ Answer("fail_analysis", <<id>>,
                  fail_analysis(analyses, id, Str(<<"boom">>, FALSE), now))

CallRetryFailedAnalysis ==
    \E id \in AnalysisIds :
        Answer("retry_failed_analysis", <<id>>,
               retry_failed_analysis(analyses, id, now))

CallCancelAnalysis ==
    \E id \in AnalysisIds, user_id \in UserIds :
        Answer("cancel_analysis", <<id, user_id>>,
               cancel_analysis(analyses, id, user_id, now))

CallAddContentToAnalysis ==
    \E id \in AnalysisIds, item \in Platform :
        /\ id \in DOMAIN analyses => Len(analyses[id].content_items) < MaxContent
        /\ Answer("add_content_to_analysis", <<id, <<item>> >>,
                  add_content_to_analysis(analyses, id, <<item>>, now))

NextDomain ==
    \/ TickDomain
    \/ CallCreateAnalysis
    \/ CallStartAnalysisProcessing
    \/ CallCompleteAnalysis
    \/ CallFailAnalysis
    \/ CallRetryFailedAnalysis
    \/ CallCancelAnalysis
    \/ CallAddContentToAnalysis

SpecDomain == InitDomain /\ [][NextDomain]_vars


\* the step is a call of the operation `call` (the clock stands still
\* during a call)
Called(call) == now' = now /\ result'.call = call

\* the analysis the call in progress names, None when there is no such one
Named == get_by_analysis_id(analyses, result'.args[1])

\* the stored rows other than the named one are as they were
OthersKept ==
    /\ Len(analyses') = Len(analyses)
    /\ \A i \in DOMAIN analyses : i # result'.args[1] => analyses'[i] = analyses[i]

Refused == result'.outcome = Raise("ValueError") /\ analyses' = analyses

\* C21: can_retry(max_retries) is true exactly when the status is FAILED
\* and retry_count < max_retries; every fail_with_error raises retry_count
\* by exactly 1 and no operation lowers or resets it; so
\* retry_failed_analysis returns the analysis to PENDING only while
\* retry_count < 3, and raises ValueError leaving the stored analysis
\* unchanged once retry_count has reached 3 or the status is not FAILED.
C21_RetryBudget ==
    [][/\ \A i \in DOMAIN analyses :
              /\ i \in DOMAIN analyses'
              /\ analyses'[i].retry_count >= analyses[i].retry_count
              /\ analyses'[i].retry_count # analyses[i].retry_count =>
                     /\ Called("fail_analysis")
                     /\ result'.args[1] = i
              /\ \A m \in 0..(MaxFails + 1) :
                     can_retry(analyses[i], m) <=>
                         (analyses[i].status = "failed" /\ analyses[i].retry_count < m)
       /\ (Called("fail_analysis") /\ Named # None) =>
              /\ result'.outcome.kind = "return"
              /\ analyses'[Named.analysis_id].retry_count = Named.retry_count + 1
       /\ (Called("retry_failed_analysis") /\ Named # None) =>
              IF Named.status = "failed" /\ Named.retry_count < 3
              THEN /\ result'.outcome.kind = "return"
                   /\ analyses'[Named.analysis_id].status = "pending"
                   /\ analyses'[Named.analysis_id].retry_count = Named.retry_count
                   /\ OthersKept
              ELSE Refused]_vars

\* the retry of an analysis that failed three times was refused
C21_Witness ==
    /\ result.call = "retry_failed_analysis"
    /\ result.outcome = Raise("ValueError")
    /\ result.args[1] \in DOMAIN analyses
    /\ analyses[result.args[1]].status = "failed"
    /\ analyses[result.args[1]].retry_count = 3

\* C22: cancel_analysis changes an analysis to CANCELLED, with completed_at
\* set, only when the caller is the owner and the status is PENDING or
\* IN_PROGRESS; for a non-owner, or for an analysis that is COMPLETED,
\* FAILED or CANCELLED, it raises ValueError and the stored analysis is
\* unchanged.
C22_CancelByOwnerOfOpenAnalysis ==
    [][(Called("cancel_analysis") /\ Named # None) =>
           IF /\ result'.args[2] = Named.user_id
              /\ Named.status \in {"pending", "in_progress"}
           THEN /\ result'.outcome.kind = "return"
                /\ analyses'[Named.analysis_id].status = "cancelled"
                /\ analyses'[Named.analysis_id].completed_at # None
                /\ OthersKept
           ELSE Refused]_vars

\* a running analysis was cancelled by its owner
C22_Witness ==
    /\ result.call = "cancel_analysis"
    /\ result.outcome.kind = "return"
    /\ analyses[result.args[1]].status = "cancelled"
    /\ analyses[result.args[1]].user_id = result.args[2]
    /\ analyses[result.args[1]].started_at # None
    /\ analyses[result.args[1]].completed_at # None

\* results the service has to refuse: none, a confidence outside [0, 1],
\* a summary that is empty, blank or longer than 5000 characters
InvalidResults(results) ==
    \/ results = None
    \/ results.confidence_score < 0
    \/ results.confidence_score > 10
    \/ results.executive_summary.words = << >>
    \/ PyLen(results.executive_summary) > 5000

\* C23: an analysis reaches COMPLETED only from IN_PROGRESS and
\* IN_PROGRESS only from PENDING; start_analysis_processing on an analysis
\* that is not PENDING, and complete_analysis on one that is not
\* IN_PROGRESS or with invalid results, raise ValueError and leave the
\* stored analysis unchanged; after a successful complete_analysis the
\* status is COMPLETED, the results are set and error_message is None.
C23_StatusOrder ==
    [][/\ \A i \in DOMAIN analyses :
              /\ (analyses'[i].status = "completed" /\ analyses[i].status # "completed")
                     => analyses[i].status = "in_progress"
              /\ (analyses'[i].status = "in_progress" /\ analyses[i].status # "in_progress")
                     => analyses[i].status = "pending"
       /\ (Called("start_analysis_processing") /\ Named # None
               /\ Named.status # "pending") => Refused
       /\ (Called("complete_analysis") /\ Named # None
               /\ (Named.status # "in_progress" \/ InvalidResults(result'.args[2])))
              => Refused
       /\ (Called("complete_analysis") /\ result'.outcome.kind = "return") =>
              /\ analyses'[result'.args[1]].status = "completed"
              /\ analyses'[result'.args[1]].results = result'.args[2]
              /\ analyses'[result'.args[1]].results # None
              /\ analyses'[result'.args[1]].error_message = None
              /\ result'.outcome.value = analyses'[result'.args[1]]]_vars

\* an analysis that had failed and was tried again was completed
C23_Witness ==
    /\ result.call = "complete_analysis"
    /\ result.outcome.kind = "return"
    /\ analyses[result.args[1]].status = "completed"
    /\ analyses[result.args[1]].retry_count >= 1
    /\ analyses[result.args[1]].results = AnalysisResult(0, Essay(MaxSummary))

\* C27: once an analysis is COMPLETED or CANCELLED, no operation of the
\* service changes its status.
C27_FinalStatesAbsorbing ==
    [][\A i \in DOMAIN analyses :
           analyses[i].status \in {"completed", "cancelled"} =>
               analyses'[i].status = analyses[i].status]_vars


(***************************************************************************)
(* One user with many analyses: the user asks for analyses of different    *)
(* products, while the workers start, complete, fail, retry and cancel the *)
(* oldest of them.                                                         *)
(***************************************************************************)
MaxCreated == 11   \* the user stops asking once this many analyses are stored
MaxWorked == 1     \* the workers handle the analyses up to this one

ProductIds == <<"B001", "B002", "B003", "B004", "B005", "B006", "B007",
                "B008", "B009", "B010", "B011", "B012", "B013">>

InitPending == Waiting(NoResult)

AskForAnalysis ==
    /\ Len(analyses) < MaxCreated
    /\ Len(analyses) < Len(ProductIds)
    /\ Answer("create_analysis", <<"amazon", Len(analyses) + 1, 1>>,
              create_analysis(analyses, "amazon",
                              Str(<<ProductIds[Len(analyses) + 1]>>, FALSE), 1, now))

AskAgain ==
    /\ analyses # << >>
    /\ Answer("create_analysis", <<"amazon", Len(analyses), 1>>,
              create_analysis(analyses, "amazon",
                              Str(<<ProductIds[Len(analyses)]>>, FALSE), 1, now))

WorkerStarts ==
    \E id \in 1..MaxWorked :
        Answer("start_analysis_processing", <<id>>,
               start_analysis_processing(analyses, id, now))

WorkerCompletes ==
    \E id \in 1..MaxWorked :
        Answer("complete_analysis", <<id>>,
               complete_analysis(analyses, id, AnalysisResult(8, Essay(120)), now))

WorkerFails ==
    \E id \in 1..MaxWorked :
        /\ id \in DOMAIN analyses => analyses[id].retry_count < MaxFails
        /\ Answer("fail_analysis", <<id>>,
                  fail_analysis(analyses, id, Str(<<"boom">>, FALSE), now))

WorkerRetries ==
    \E id \in 1..MaxWorked :
        Answer("retry_failed_analysis", <<id>>,
               retry_failed_analysis(analyses, id, now))

UserCancels ==
    \E id \in 1..MaxWorked :
        Answer("cancel_analysis", <<id>>, cancel_analysis(analyses, id, 1, now))

NextPending ==
    \/ AskForAnalysis
    \/ AskAgain
    \/ WorkerStarts
    \/ WorkerCompletes
    \/ WorkerFails
    \/ WorkerRetries
    \/ UserCancels

SpecPending == InitPending /\ [][NextPending]_vars

\* the analyses of a user that are pending
PendingOf(user_id) ==
    {i \in DOMAIN analyses :
        analyses[i].user_id = user_id /\ analyses[i].status = "pending"}

\* C28: after any sequence of service operations on a repository that
\* starts empty, no user has more than 10 analyses in status PENDING.
C28_AtMostTenPending ==
    \A user_id \in UserIds : Cardinality(PendingOf(user_id)) <= 10


(***************************************************************************)
(* RateLimiter without redis: is_allowed falls to the in-memory sliding    *)
(* window.  Time is counted in whole seconds; an endpoint asks with one    *)
(* limit and one window, and the callers are told apart by their key.      *)
(***************************************************************************)
MaxLimit == 2      \* the largest limit of an endpoint
MaxWindow == 2     \* the longest window of an endpoint, in seconds
MaxSeconds == 4    \* the clock of the limiter stops advancing here
MaxRequests == 5   \* requests made to the endpoint

ClientKeys == {"rate_limit:ip:10.0.0.1:minute", "rate_limit:ip:10.0.0.2:minute"}

\* a slip: the request is recorded before it is counted
_memory_rate_limit_recording_denied(store, key, limit, window_seconds, t) ==
    LET listed == IF DictHas(store, key) THEN DictGet(store, key) ELSE << >>
        kept == SelectSeq(listed, LAMBDA timestamp : timestamp > t - window_seconds)
        current_count == Len(kept)
    IN IF current_count >= limit
       THEN [store |-> DictPut(store, key, Append(kept, t)),
             allowed |-> FALSE,
             info |-> [current_count |-> current_count,
                       limit |-> limit,
                       window_seconds |-> window_seconds,
                       retry_after |-> window_seconds]]
       ELSE [store |-> DictPut(store, key, Append(kept, t)),
             allowed |-> TRUE,
             info |-> [current_count |-> current_count + 1,
                       limit |-> limit,
                       window_seconds |-> window_seconds,
                       remaining |-> limit - current_count - 1]]

_memory_rate_limit(store, key, limit, window_seconds, t) ==
    LET listed == IF DictHas(store, key) THEN DictGet(store, key) ELSE << >>
        kept == SelectSeq(listed, LAMBDA timestamp : timestamp > t - window_seconds)
        current_count == Len(kept)
    IN IF current_count >= limit
       THEN [store |-> DictPut(store, key, kept),
             allowed |-> FALSE,
             info |-> [current_count |-> current_count,
                       limit |-> limit,
                       window_seconds |-> window_seconds,
                       retry_after |-> window_seconds]]
       ELSE [store |-> DictPut(store, key, Append(kept, t)),
             allowed |-> TRUE,
             info |-> [current_count |-> current_count + 1,
                       limit |-> limit,
                       window_seconds |-> window_seconds,
                       remaining |-> limit - current_count - 1]]

\* self.redis is None
is_allowed(store, key, limit, window_seconds, t) ==
    _memory_rate_limit(store, key, limit, window_seconds, t)

InitLimiter ==
    /\ cache = EmptyDict
    /\ timestamps = EmptyDict
    /\ max_size = CacheMaxSize
    /\ ttl = CacheTtl
    /\ now = 0
    /\ setLog = << >>
    /\ lastOp = NoOp
    /\ thr = NoThreads
    /\ NoRepository
    /\ NoService
    /\ memory_store = EmptyDict
    /\ calls = << >>
    /\ limits \in [limit : 0..MaxLimit, window_seconds : 1..MaxWindow]

TickLimiter ==
    /\ now < MaxSeconds
    /\ now' = now + 1
    /\ UNCHANGED <<limiterVars, outsideLimiter>>

CallIsAllowed ==
    /\ Len(calls) < MaxRequests
    /\ \E key \in ClientKeys :
          LET answer == is_allowed(memory_store, key, limits.limit,
                                   limits.window_seconds, now)
          IN /\ memory_store' = answer.store
             /\ calls' = Append(calls, [key |-> key, at |-> now,
                                        allowed |-> answer.allowed,
                                        info |-> answer.info])
    /\ UNCHANGED <<now, limits, outsideLimiter>>

NextLimiter ==
    \/ TickLimiter
    \/ CallIsAllowed

SpecLimiter == InitLimiter /\ [][NextLimiter]_vars

\* the allowed calls of a key made at a time in `times`
AllowedAt(key, times) ==
    {i \in DOMAIN calls :
        calls[i].key = key /\ calls[i].allowed /\ calls[i].at \in times}

\* the allowed calls of the key of call i made before it that its window
\* still holds
StillCounted(i) ==
    {j \in 1..(i - 1) :
        /\ calls[j].key = calls[i].key
        /\ calls[j].allowed
        /\ calls[j].at > calls[i].at - limits.window_seconds}

\* the last call of a key
LastCallOf(key) ==
    CHOOSE i \in DOMAIN calls :
        /\ calls[i].key = key
        /\ \A j \in DOMAIN calls : calls[j].key = key => j <= i

\* a denied call records nothing and delays nothing: a call is allowed
\* exactly when fewer than `limit` earlier allowed calls of its key are
\* still in its window, and the store holds the timestamps of the allowed
\* calls that were in the window of the last call, and nothing else
DeniedCallsLeaveNoTrace ==
    /\ \A i \in DOMAIN calls :
           calls[i].allowed <=> Cardinality(StillCounted(i)) < limits.limit
    /\ \A key \in ClientKeys :
           IF \E i \in DOMAIN calls : calls[i].key = key
           THEN LET last == LastCallOf(key)
                    counted == StillCounted(last) \union
                                   (IF calls[last].allowed THEN {last} ELSE {})
                IN /\ DictHas(memory_store, key)
                   /\ Len(DictGet(memory_store, key)) = Cardinality(counted)
                   /\ \A n \in DOMAIN DictGet(memory_store, key) :
                          \E j \in counted : calls[j].at = DictGet(memory_store, key)[n]
           ELSE ~DictHas(memory_store, key)

\* C29 as the code has it: for every key, the allowed calls whose
\* timestamps fall in a window [t, t + window_seconds) that excludes its
\* end never exceed limit, and a denied call records nothing, so denied
\* calls do not delay when the next call is allowed.
C29_HalfOpenWindowHoldsLimit ==
    /\ \A key \in ClientKeys, t \in 0..MaxSeconds :
           Cardinality(AllowedAt(key, t..(t + limits.window_seconds - 1)))
               <= limits.limit
    /\ DeniedCallsLeaveNoTrace

\* C29 as stated: for every key, the allowed calls whose timestamps fall
\* within any interval of length window_seconds, its two ends included,
\* never exceed limit, and a denied call records nothing.
C29_AnyWindowHoldsLimit ==
    /\ \A key \in ClientKeys, t \in 0..MaxSeconds :
           Cardinality(AllowedAt(key, t..(t + limits.window_seconds)))
               <= limits.limit
    /\ DeniedCallsLeaveNoTrace

\* a key was allowed, then denied inside the window, then allowed again the
\* moment the window of the first call had passed
C29_Witness ==
    /\ limits.limit = 1
    /\ limits.window_seconds = 2
    /\ \E i, j, k \in DOMAIN calls :
           /\ i < j /\ j < k
           /\ calls[i].key = calls[j].key /\ calls[j].key = calls[k].key
           /\ calls[i].allowed /\ ~calls[j].allowed /\ calls[k].allowed
           /\ calls[j].at = calls[i].at + 1
           /\ calls[k].at = calls[i].at + limits.window_seconds

====
